---- MODULE Spec2Model ----
(***************************************************************************)
(* A model of the pipe-puzzle resolution engine (src/game/boardModel.ts,   *)
(* the top-inlet / bottom-drain BoardModel), its piece catalogue           *)
(* (src/game/pieces.ts), its generator (src/game/rng.ts) and the scene's   *)
(* input lock-out (src/ui/BoardInputController.ts, src/scenes/GameScene.ts)*)
(***************************************************************************)
EXTENDS Integers, Sequences, FiniteSets, TLC

(***************************************************************************)
(* pieces.ts                                                               *)
(***************************************************************************)
DirU == 1
DirR == 2
DirD == 4
DirL == 8

ALL_DIRS == <<DirU, DirR, DirD, DirL>>

OPPOSITE(d) ==
  CASE d = DirU -> DirD
    [] d = DirR -> DirL
    [] d = DirD -> DirU
    [] d = DirL -> DirR

DIR_OFFSET(d) ==
  CASE d = DirU -> [dx |-> 0, dy |-> -1]
    [] d = DirR -> [dx |-> 1, dy |-> 0]
    [] d = DirD -> [dx |-> 0, dy |-> 1]
    [] d = DirL -> [dx |-> -1, dy |-> 0]

\* The piece identifiers in the key order of every weight table of the code.
PieceIds == <<"I2", "L2", "T3", "X4", "STOP1", "ARROW">>

PIECE_DEFS(id) ==
  CASE id = "I2"    -> [kind |-> "PIPE",  baseMask |-> DirU + DirD]
    [] id = "L2"    -> [kind |-> "PIPE",  baseMask |-> DirU + DirR]
    [] id = "T3"    -> [kind |-> "PIPE",  baseMask |-> DirL + DirR + DirD]
    [] id = "X4"    -> [kind |-> "PIPE",  baseMask |-> DirU + DirR + DirD + DirL]
    [] id = "STOP1" -> [kind |-> "PIPE",  baseMask |-> DirU]
    [] id = "ARROW" -> [kind |-> "ARROW", baseMask |-> DirR]

hasBit(mask, bit) == (mask \div bit) % 2 = 1

\* A step that turns the mask counter-clockwise.
RotateStepBackward(m) ==
  LET u == IF hasBit(m, DirU) THEN DirL ELSE 0
      r == IF hasBit(m, DirR) THEN DirU ELSE 0
      d == IF hasBit(m, DirD) THEN DirR ELSE 0
      l == IF hasBit(m, DirL) THEN DirD ELSE 0
  IN  u + r + d + l

\* One turn of the loop body of rotateMask: U->R, R->D, D->L, L->U.
RotateStep(m) ==
  LET u == IF hasBit(m, DirU) THEN DirR ELSE 0
      r == IF hasBit(m, DirR) THEN DirD ELSE 0
      d == IF hasBit(m, DirD) THEN DirL ELSE 0
      l == IF hasBit(m, DirL) THEN DirU ELSE 0
  IN  u + r + d + l

RECURSIVE RotateLoop(_, _)
RotateLoop(m, i) == IF i <= 0 THEN m ELSE RotateLoop(RotateStep(m), i - 1)

rotateMask(mask, rot) == RotateLoop(mask % 16, rot)

pieceMask(pieceId, rot) == rotateMask(PIECE_DEFS(pieceId).baseMask, rot)

\* A turn that stops at rotation 3.
rotCWSaturating(rot) == IF rot >= 3 THEN 3 ELSE rot + 1

rotCW(rot) == (rot + 1) % 4

(***************************************************************************)
(* rng.ts: XorShift32.  The 32-bit state is kept as two 16-bit halves so   *)
(* that every intermediate value fits the checker's integers.              *)
(***************************************************************************)
Half == 65536

RECURSIVE Xor16(_, _)
Xor16(a, b) ==
  IF a = 0 THEN b
  ELSE IF b = 0 THEN a
  ELSE 2 * Xor16(a \div 2, b \div 2) + (((a % 2) + (b % 2)) % 2)

Xor32(a, b) == [hi |-> Xor16(a.hi, b.hi), lo |-> Xor16(a.lo, b.lo)]

\* x << 13, x >>> 17 and x << 5 on a 32-bit pattern.
Shl13(x) == [hi |-> (x.hi % 8) * 8192 + (x.lo \div 8), lo |-> (x.lo % 8) * 8192]
Shr17(x) == [hi |-> 0, lo |-> x.hi \div 2]
Shl5(x)  == [hi |-> (x.hi % 2048) * 32 + (x.lo \div 2048), lo |-> (x.lo % 2048) * 32]

\* new XorShift32(seed), for 0 <= seed < 2^31: (seed | 0) || 0x12345678.
XorShiftNew(seed) ==
  IF seed = 0 THEN [hi |-> 4660, lo |-> 22136]
  ELSE [hi |-> seed \div Half, lo |-> seed % Half]

\* nextU32: the new state, which is also the value returned.
XorShl13(x) == Xor32(x, Shl13(x))
XorShr17(x) == Xor32(x, Shr17(x))
XorShl5(x) == Xor32(x, Shl5(x))

nextU32(x) == XorShl5(XorShr17(XorShl13(x)))

\* floor(nextFloat01() * n) for the value u = hi * 2^16 + lo, n < 2^15.
ScaleFloor(u, n) == (u.hi * n + ((u.lo * n) \div Half)) \div Half

\* nextInt(maxExclusive), maxExclusive > 0: [value, rng].
NextIntOf(u, maxExclusive) == [value |-> ScaleFloor(u, maxExclusive), rng |-> u]

nextInt(x, maxExclusive) == NextIntOf(nextU32(x), maxExclusive)

\* A selection test that ignores the enabled filter.
SelectableIgnoringFilter(weights, enabled, k) == weights[k] > 0

\* The weight pickWeighted counts for key k: its weight when positive and the
\* key is not disabled by the filter, else nothing.
Selectable(weights, enabled, k) == enabled[k] /\ weights[k] > 0

RECURSIVE WeightTotal(_, _, _)
WeightTotal(weights, enabled, i) ==
  IF i > Len(PieceIds) THEN 0
  ELSE (IF Selectable(weights, enabled, PieceIds[i]) THEN weights[PieceIds[i]] ELSE 0)
       + WeightTotal(weights, enabled, i + 1)

\* The second loop of pickWeighted: r = u / 2^32 * total, and the first
\* selectable key k with r - (w_1 + .. + w_k) < 0, that is with
\* u * total < (w_1 + .. + w_k) * 2^32.
\* The fallback after the loop: keys.find(k => enabled[k] !== false).
RECURSIVE PickFallback(_, _)
PickFallback(enabled, i) ==
  IF i > Len(PieceIds) THEN "NONE"
  ELSE IF enabled[PieceIds[i]] THEN PieceIds[i] ELSE PickFallback(enabled, i + 1)

RECURSIVE PickLoop(_, _, _, _, _, _)
PickLoop(weights, enabled, u, total, i, cum) ==
  IF i > Len(PieceIds) THEN PickFallback(enabled, 1)
  ELSE LET k == PieceIds[i] IN
       IF ~Selectable(weights, enabled, k)
       THEN PickLoop(weights, enabled, u, total, i + 1, cum)
       ELSE LET c == cum + weights[k] IN
            IF u.hi * total + ((u.lo * total) \div Half) < c * Half
            THEN k
            ELSE PickLoop(weights, enabled, u, total, i + 1, c)

\* pickWeighted: [threw, key, rng].  The error is raised before any draw.
PickDrawn(weights, enabled, total, u) ==
  [threw |-> FALSE, key |-> PickLoop(weights, enabled, u, total, 1, 0), rng |-> u]

PickOf(x, weights, enabled, total) ==
  IF total <= 0 THEN [threw |-> TRUE, key |-> "NONE", rng |-> x]
  ELSE PickDrawn(weights, enabled, total, nextU32(x))

pickWeighted(x, weights, enabled) == PickOf(x, weights, enabled, WeightTotal(weights, enabled, 1))

(***************************************************************************)
(* boardModel.ts: the grid and its pure helpers.  A grid is grid[y][x],    *)
(* rows 0 .. height-1 from the top; NullTile is the code's null.  A string *)
(* key "x,y" of the code is the position [x, y] here.                      *)
(***************************************************************************)
NullTile == [kind |-> "NONE", pieceId |-> "NONE", rot |-> 0]

Pos(x, y) == [x |-> x, y |-> y]

Width(g) == Cardinality(DOMAIN g[0])
Height(g) == Cardinality(DOMAIN g)

inBounds(g, x, y) == x >= 0 /\ x < Width(g) /\ y >= 0 /\ y < Height(g)

getCell(g, x, y) == IF ~inBounds(g, x, y) THEN NullTile ELSE g[y][x]

SetCell(g, x, y, t) == [g EXCEPT ![y][x] = t]

EmptyGrid(w, h) == [y \in 0 .. h - 1 |-> [x \in 0 .. w - 1 |-> NullTile]]

maskAt(g, x, y) == pieceMask(g[y][x].pieceId, g[y][x].rot)

InSeq(s, e) == \E i \in 1 .. Len(s) : s[i] = e

\* isTopColumnEnabled / isBottomColumnEnabled
isTopColumnEnabled(st, x) ==
  IF st.mode = "ANY_EDGE" THEN TRUE
  ELSE IF st.top.all THEN TRUE
  ELSE x \in st.top.cols

\* A drain test that takes every column as enabled.
isBottomColumnAlwaysEnabled(st, x) == TRUE

isBottomColumnEnabled(st, x) ==
  IF st.mode = "ANY_EDGE" THEN TRUE
  ELSE IF st.bottom.all THEN TRUE
  ELSE x \in st.bottom.cols

\* The for-loop over ALL_DIRS in the search of collectNetworkFromStart, from
\* direction index i on: the visited list and the queue after it.
RECURSIVE CollectDirs(_, _, _, _, _)
CollectDirs(g, cur, i, visited, q) ==
  IF i > Len(ALL_DIRS) THEN [visited |-> visited, q |-> q]
  ELSE LET dir == ALL_DIRS[i]
           off == DIR_OFFSET(dir)
           nx == cur.x + off.dx
           ny == cur.y + off.dy
       IN  IF ~hasBit(maskAt(g, cur.x, cur.y), dir) THEN CollectDirs(g, cur, i + 1, visited, q)
           ELSE IF ~inBounds(g, nx, ny) THEN CollectDirs(g, cur, i + 1, visited, q)
           ELSE IF g[ny][nx] = NullTile THEN CollectDirs(g, cur, i + 1, visited, q)
           ELSE IF ~hasBit(maskAt(g, nx, ny), OPPOSITE(dir)) THEN CollectDirs(g, cur, i + 1, visited, q)
           ELSE IF InSeq(visited, Pos(nx, ny)) THEN CollectDirs(g, cur, i + 1, visited, q)
           ELSE CollectDirs(g, cur, i + 1, Append(visited, Pos(nx, ny)), Append(q, Pos(nx, ny)))

RECURSIVE CollectLoop(_, _, _)
CollectNext(g, r) == CollectLoop(g, r.visited, r.q)

CollectLoop(g, visited, q) ==
  IF q = <<>> THEN visited
  ELSE CollectNext(g, CollectDirs(g, Head(q), 1, visited, Tail(q)))

\* A search that also starts from every other top cell open toward the inlet
\* side, so that the networks of several inlets come back as one.
collectNetworkMergingInlets(g, startX) ==
  IF g[0][startX] = NullTile THEN <<>>
  ELSE IF ~hasBit(maskAt(g, startX, 0), DirU) THEN <<>>
  ELSE LET others == SelectSeq([i \in 1 .. Width(g) |-> Pos(i - 1, 0)],
                               LAMBDA c : /\ c.x # startX
                                          /\ g[0][c.x] # NullTile
                                          /\ hasBit(maskAt(g, c.x, 0), DirU))
       IN  CollectLoop(g, <<Pos(startX, 0)>> \o others, <<Pos(startX, 0)>> \o others)

\* A search that stops at the inlet cell.
collectInletCellOnly(g, startX) ==
  IF g[0][startX] = NullTile THEN <<>>
  ELSE IF ~hasBit(maskAt(g, startX, 0), DirU) THEN <<>>
  ELSE <<Pos(startX, 0)>>

\* A search that starts at the inlet cell whatever its mask.
collectNetworkIgnoringInletMask(g, startX) ==
  IF g[0][startX] = NullTile THEN <<>>
  ELSE CollectLoop(g, <<Pos(startX, 0)>>, <<Pos(startX, 0)>>)

\* collectNetworkFromStart: the visited set in insertion order.
collectNetworkFromStart(g, startX) ==
  IF g[0][startX] = NullTile THEN <<>>
  ELSE IF ~hasBit(maskAt(g, startX, 0), DirU) THEN <<>>
  ELSE CollectLoop(g, <<Pos(startX, 0)>>, <<Pos(startX, 0)>>)

\* networkReachesBottom
networkReachesBottom(g, network) ==
  \E i \in 1 .. Len(network) :
    /\ network[i].y = Height(g) - 1
    /\ g[network[i].y][network[i].x] # NullTile
    /\ hasBit(maskAt(g, network[i].x, network[i].y), DirD)

\* A validator that lets an open connector leave the board anywhere.
ConnectorOkAnyEdge(st, g, network, p, dir) ==
  LET off == DIR_OFFSET(dir)
      nx == p.x + off.dx
      ny == p.y + off.dy
  IN  IF ~hasBit(maskAt(g, p.x, p.y), dir) THEN TRUE
      ELSE IF ~inBounds(g, nx, ny) THEN TRUE
      ELSE IF g[ny][nx] = NullTile THEN FALSE
      ELSE IF ~hasBit(maskAt(g, nx, ny), OPPOSITE(dir)) THEN FALSE
      ELSE InSeq(network, Pos(nx, ny))

\* The body of the two loops of checkNetworkValid for one cell and one
\* direction: TRUE when the loop goes on, FALSE when it returns {ok: false}.
ConnectorOk(st, g, network, p, dir) ==
  LET off == DIR_OFFSET(dir)
      nx == p.x + off.dx
      ny == p.y + off.dy
  IN  IF ~hasBit(maskAt(g, p.x, p.y), dir) THEN TRUE
      ELSE IF ~inBounds(g, nx, ny)
      THEN LET okTop == p.y = 0 /\ dir = DirU /\ isTopColumnEnabled(st, p.x)
               okBottom == p.y = Height(g) - 1 /\ dir = DirD /\ isBottomColumnEnabled(st, p.x)
           IN  okTop \/ okBottom
      ELSE IF g[ny][nx] = NullTile THEN FALSE
      ELSE IF ~hasBit(maskAt(g, nx, ny), OPPOSITE(dir)) THEN FALSE
      ELSE InSeq(network, Pos(nx, ny))

\* checkNetworkValid(network).ok
checkNetworkValid(st, g, network) ==
  \A i \in 1 .. Len(network) :
    /\ g[network[i].y][network[i].x] # NullTile
    /\ \A j \in 1 .. Len(ALL_DIRS) : ConnectorOk(st, g, network, network[i], ALL_DIRS[j])

\* The start cell of computeDistInNetwork: the index of the first network
\* cell whose y is strictly below every earlier one (0: the network is empty).
RECURSIVE DistStart(_, _, _)
DistStart(network, i, best) ==
  IF i > Len(network) THEN best
  ELSE IF best = 0 \/ network[i].y < network[best].y
       THEN DistStart(network, i + 1, i)
       ELSE DistStart(network, i + 1, best)

HasKey(f, k) == k \in DOMAIN f

RECURSIVE DistDirs(_, _, _, _, _, _)
DistDirs(g, network, cur, i, dist, q) ==
  IF i > Len(ALL_DIRS) THEN [dist |-> dist, q |-> q]
  ELSE LET dir == ALL_DIRS[i]
           off == DIR_OFFSET(dir)
           nk == Pos(cur.x + off.dx, cur.y + off.dy)
       IN  IF ~hasBit(maskAt(g, cur.x, cur.y), dir) THEN DistDirs(g, network, cur, i + 1, dist, q)
           ELSE IF ~InSeq(network, nk) THEN DistDirs(g, network, cur, i + 1, dist, q)
           ELSE IF HasKey(dist, nk) THEN DistDirs(g, network, cur, i + 1, dist, q)
           ELSE DistDirs(g, network, cur, i + 1, (nk :> (dist[cur] + 1)) @@ dist, Append(q, nk))

RECURSIVE DistLoop(_, _, _, _)
DistNext(g, network, r) == DistLoop(g, network, r.dist, r.q)

DistLoop(g, network, dist, q) ==
  IF q = <<>> THEN dist
  ELSE LET cur == Head(q) IN
       IF g[cur.y][cur.x] = NullTile THEN DistLoop(g, network, dist, Tail(q))
       ELSE DistNext(g, network, DistDirs(g, network, cur, 1, dist, Tail(q)))

\* computeDistInNetwork: the map from network cells to distances.
DistFrom(g, network, s) ==
  IF s = 0 THEN << >>
  ELSE DistLoop(g, network, (network[s] :> 0), <<network[s]>>)

computeDistInNetwork(g, network) == DistFrom(g, network, DistStart(network, 1, 0))

\* The cells of a WATER step: every network cell with reachInfo.get(key) ?? 0.
WaterCellsOf(network, reachInfo) ==
  [i \in 1 .. Len(network) |->
     [x |-> network[i].x, y |-> network[i].y,
      dist |-> IF HasKey(reachInfo, network[i]) THEN reachInfo[network[i]] ELSE 0]]

WaterCells(g, network) == WaterCellsOf(network, computeDistInNetwork(g, network))

\* A clear that leaves the first listed cell as it is.
clearCellsButFirst(g, cells) ==
  [y \in 0 .. Height(g) - 1 |->
     [x \in 0 .. Width(g) - 1 |->
        IF cells # <<>> /\ InSeq(Tail(cells), Pos(x, y)) THEN NullTile ELSE g[y][x]]]

\* clearCells
RECURSIVE clearCells(_, _)
clearCells(g, cells) ==
  IF cells = <<>> THEN g
  ELSE LET c == Head(cells) IN
       IF ~inBounds(g, c.x, c.y) THEN clearCells(g, Tail(cells))
       ELSE clearCells(SetCell(g, c.x, c.y, NullTile), Tail(cells))

Move(from, to, tile) == [from |-> from, to |-> to, tile |-> tile]

\* The inner loop of applyGravity for column x, from row y upwards.
RECURSIVE GravityColumn(_, _, _, _, _)
GravityColumn(g, x, y, writeY, moves) ==
  IF y < 0 THEN [grid |-> g, moves |-> moves]
  ELSE LET t == g[y][x] IN
       IF t = NullTile THEN GravityColumn(g, x, y - 1, writeY, moves)
       ELSE IF y # writeY
            THEN GravityColumn(SetCell(SetCell(g, x, writeY, t), x, y, NullTile), x, y - 1,
                               writeY - 1, Append(moves, Move(Pos(x, y), Pos(x, writeY), t)))
            ELSE GravityColumn(g, x, y - 1, writeY - 1, moves)

RECURSIVE GravityColumns(_, _, _)
GravityNext(x, r) == GravityColumns(r.grid, x + 1, r.moves)

GravityColumns(g, x, moves) ==
  IF x >= Width(g) THEN [grid |-> g, moves |-> moves]
  ELSE GravityNext(x, GravityColumn(g, x, Height(g) - 1, Height(g) - 1, moves))

\* A gravity that compacts column 0 only.
applyGravityFirstColumn(g) == GravityColumn(g, 0, Height(g) - 1, Height(g) - 1, <<>>)

\* applyGravity: [grid, moves]
applyGravity(g) == GravityColumns(g, 0, <<>>)

\* A freshly sampled tile: pickWeighted, then nextInt(4): [threw, tile, rng].
SampleRotated(pieceId, r) ==
  [threw |-> FALSE,
   tile |-> [kind |-> PIECE_DEFS(pieceId).kind, pieceId |-> pieceId, rot |-> r.value],
   rng |-> r.rng]

SamplePicked(x, pick) ==
  IF pick.threw THEN [threw |-> TRUE, tile |-> NullTile, rng |-> x]
  ELSE SampleRotated(pick.key, nextInt(pick.rng, 4))

SampleTile(x, weights, enabled) == SamplePicked(x, pickWeighted(x, weights, enabled))

\* The loops of refillFromTop, columns left to right and rows top to bottom,
\* from cell (x, y) on.
RECURSIVE RefillLoop(_, _, _, _, _, _)
\* A refill step whose move starts at the filled cell itself.
RefillCellInPlace(st, g, rng0, x, y, moves, s) ==
  IF s.threw THEN [threw |-> TRUE, grid |-> g, rng |-> rng0, moves |-> moves]
  ELSE RefillLoop(st, SetCell(g, x, y, s.tile), s.rng, x, y + 1,
                  Append(moves, Move(Pos(x, y), Pos(x, y), s.tile)))

\* The empty cell (x, y) receives the sample s, or the sampler's error ends
\* the refill.
RefillCell(st, g, rng0, x, y, moves, s) ==
  IF s.threw THEN [threw |-> TRUE, grid |-> g, rng |-> rng0, moves |-> moves]
  ELSE RefillLoop(st, SetCell(g, x, y, s.tile), s.rng, x, y + 1,
                  Append(moves, Move(Pos(x, -1), Pos(x, y), s.tile)))

RefillLoop(st, g, rng0, x, y, moves) ==
  IF x >= Width(g) THEN [threw |-> FALSE, grid |-> g, rng |-> rng0, moves |-> moves]
  ELSE IF y >= Height(g) THEN RefillLoop(st, g, rng0, x + 1, 0, moves)
  ELSE IF g[y][x] # NullTile THEN RefillLoop(st, g, rng0, x, y + 1, moves)
  ELSE RefillCell(st, g, rng0, x, y, moves, SampleTile(rng0, st.weights, st.enabledPieces))

\* A refill that visits the last column only.
refillLastColumnOnly(st, g, rng0) == RefillLoop(st, g, rng0, Width(g) - 1, 0, <<>>)

\* refillFromTop: [threw, grid, rng, moves]
refillFromTop(st, g, rng0) == RefillLoop(st, g, rng0, 0, 0, <<>>)

\* n | 0 for a whole number n = hi * 65536 + lo (lo in 0 .. 65535 when hi # 0):
\* the low 32 bits of n read as a signed integer.
ToInt32(n) ==
  IF n.hi = 0 THEN n.lo
  ELSE IF (n.hi % Half) >= (Half \div 2) THEN ((n.hi % Half) - Half) * Half + n.lo
  ELSE (n.hi % Half) * Half + n.lo

clampInt(n, min, max) ==
  LET lo == IF max < ToInt32(n) THEN max ELSE ToInt32(n) IN IF min > lo THEN min ELSE lo

\* buildInitialWeights(override): the base table with the override's entries.
buildInitialWeights(override) ==
  LET base == [k \in {"I2", "L2", "T3", "X4", "STOP1", "ARROW"} |->
                 CASE k = "I2" -> 50 [] k = "L2" -> 40 [] k = "T3" -> 10 [] OTHER -> 0]
  IN  [k \in DOMAIN base |-> IF k \in DOMAIN override THEN override[k] ELSE base[k]]

\* The loops of applyInitialFill, rows top to bottom and columns left to right.
RECURSIVE InitialFillLoop(_, _, _, _, _, _)
\* The cell (x, y) receives the sample s, or the sampler's error ends the fill.
InitialFillCell(st, weights, g, rng0, x, y, s) ==
  IF s.threw THEN [threw |-> TRUE, grid |-> g, rng |-> rng0]
  ELSE InitialFillLoop(st, weights, SetCell(g, x, y, s.tile), s.rng, x + 1, y)

InitialFillLoop(st, weights, g, rng0, x, y) ==
  IF y >= Height(g) THEN [threw |-> FALSE, grid |-> g, rng |-> rng0]
  ELSE IF x >= Width(g) THEN InitialFillLoop(st, weights, g, rng0, 0, y + 1)
  ELSE InitialFillCell(st, weights, g, rng0, x, y, SampleTile(rng0, weights, st.enabledPieces))

\* applyInitialFill: [threw, grid, rng]
applyInitialFill(st, g, rng0) ==
  IF ~st.fill.present THEN [threw |-> FALSE, grid |-> g, rng |-> rng0]
  ELSE LET rows == clampInt(st.fill.rowsFromBottom, 0, Height(g)) IN
       IF rows <= 0 THEN [threw |-> FALSE, grid |-> g, rng |-> rng0]
       ELSE InitialFillLoop(st,
                            IF st.fill.useInitialWeights
                            THEN buildInitialWeights(st.fill.initialWeights)
                            ELSE st.weights,
                            g, rng0, 0, Height(g) - rows)

\* The constructor: [threw, grid, rng]
NewBoard(st) ==
  applyInitialFill(st, EmptyGrid(st.width, st.height), XorShiftNew(st.seed))

\* rotateCellCW
rotateCellCW(g, x, y) ==
  IF getCell(g, x, y) = NullTile THEN g
  ELSE [g EXCEPT ![y][x].rot = rotCW(@)]

\* A swap that tests only its first coordinate and empties it when the second
\* is outside the board.
swapCellsUncheckedTarget(g, a, b) ==
  IF a.x = b.x /\ a.y = b.y THEN g
  ELSE IF ~inBounds(g, a.x, a.y) THEN g
  ELSE IF ~inBounds(g, b.x, b.y) THEN SetCell(g, a.x, a.y, NullTile)
  ELSE SetCell(SetCell(g, a.x, a.y, g[b.y][b.x]), b.x, b.y, g[a.y][a.x])

\* A swap that writes b's content into a and leaves b as it was.
swapCellsOverwriting(g, a, b) ==
  IF a.x = b.x /\ a.y = b.y THEN g
  ELSE IF ~inBounds(g, a.x, a.y) THEN g
  ELSE IF ~inBounds(g, b.x, b.y) THEN g
  ELSE SetCell(g, a.x, a.y, g[b.y][b.x])

\* A swap that exchanges only cells one step apart.
swapCellsAdjacentOnly(g, a, b) ==
  IF a.x = b.x /\ a.y = b.y THEN g
  ELSE IF ~inBounds(g, a.x, a.y) THEN g
  ELSE IF ~inBounds(g, b.x, b.y) THEN g
  ELSE IF (a.x - b.x) * (a.x - b.x) + (a.y - b.y) * (a.y - b.y) # 1 THEN g
  ELSE SetCell(SetCell(g, a.x, a.y, g[b.y][b.x]), b.x, b.y, g[a.y][a.x])

\* swapCells
swapCells(g, a, b) ==
  IF a.x = b.x /\ a.y = b.y THEN g
  ELSE IF ~inBounds(g, a.x, a.y) THEN g
  ELSE IF ~inBounds(g, b.x, b.y) THEN g
  ELSE SetCell(SetCell(g, a.x, a.y, g[b.y][b.x]), b.x, b.y, g[a.y][a.x])

\* The write loop of shiftAlongPath from index i (0-based) on.
RECURSIVE ShiftLoop(_, _, _, _, _)
ShiftLoop(g, path, rotated, i, moves) ==
  IF i >= Len(path) THEN [grid |-> g, moves |-> moves]
  ELSE LET from == path[((i + 1) % Len(path)) + 1]
           to == path[i + 1]
           tile == rotated[i + 1]
       IN  ShiftLoop(SetCell(g, to.x, to.y, tile), path, rotated, i + 1,
                     Append(moves, Move(from, to, tile)))

\* A shift that does not test the path cells for emptiness.
shiftAlongPathOverEmpty(g, path) ==
  IF Len(path) < 2 THEN [grid |-> g, moves |-> <<>>]
  ELSE IF \E i \in 1 .. Len(path) : ~inBounds(g, path[i].x, path[i].y)
       THEN [grid |-> g, moves |-> <<>>]
  ELSE ShiftLoop(g, path,
                 [i \in 1 .. Len(path) |-> g[path[(i % Len(path)) + 1].y][path[(i % Len(path)) + 1].x]],
                 0, <<>>)

\* shiftAlongPath: [grid, moves]
shiftAlongPath(g, path) ==
  IF Len(path) < 2 THEN [grid |-> g, moves |-> <<>>]
  ELSE IF \E i \in 1 .. Len(path) : ~inBounds(g, path[i].x, path[i].y)
       THEN [grid |-> g, moves |-> <<>>]
  ELSE LET tiles == [i \in 1 .. Len(path) |-> g[path[i].y][path[i].x]] IN
       IF \E i \in 1 .. Len(tiles) : tiles[i] = NullTile
       THEN [grid |-> g, moves |-> <<>>]
       ELSE ShiftLoop(g, path, Tail(tiles) \o <<tiles[1]>>, 0, <<>>)

\* The while loop of triggerArrowAt: the occupied cells from (x, y) to the edge.
RECURSIVE ArrowRun(_, _, _, _, _)
ArrowRun(g, x, y, off, toClear) ==
  IF ~inBounds(g, x, y) THEN toClear
  ELSE ArrowRun(g, x + off.dx, y + off.dy, off,
                IF g[y][x] # NullTile THEN Append(toClear, Pos(x, y)) ELSE toClear)

\* ALL_DIRS.find(d => hasBit(mask, d)); 0 when there is none.
RECURSIVE FirstDir(_, _)
FirstDir(mask, i) ==
  IF i > Len(ALL_DIRS) THEN 0
  ELSE IF hasBit(mask, ALL_DIRS[i]) THEN ALL_DIRS[i] ELSE FirstDir(mask, i + 1)

\* The CLEAR step of triggerArrowAt and the DROP step its gravity produces.
ArrowDropped(toClear, gv) ==
  [grid |-> gv.grid,
   steps |-> <<[type |-> "CLEAR", cells |-> toClear]>>
             \o (IF Len(gv.moves) > 0
                 THEN <<[type |-> "DROP", moves |-> gv.moves]>>
                 ELSE <<>>)]

ArrowCleared(g, toClear) == ArrowDropped(toClear, applyGravity(clearCells(g, toClear)))

\* A trigger that fires on any occupied cell, pipes included.
triggerAnyTileAt(g, pos) ==
  LET tile == getCell(g, pos.x, pos.y) IN
  IF tile = NullTile THEN [grid |-> g, steps |-> <<>>]
  ELSE LET dir == FirstDir(pieceMask(tile.pieceId, tile.rot), 1) IN
       IF dir = 0 THEN [grid |-> g, steps |-> <<>>]
       ELSE ArrowCleared(g, ArrowRun(g, pos.x + DIR_OFFSET(dir).dx, pos.y + DIR_OFFSET(dir).dy,
                                     DIR_OFFSET(dir), <<Pos(pos.x, pos.y)>>))

\* triggerArrowAt: [grid, steps]
triggerArrowAt(g, pos) ==
  LET tile == getCell(g, pos.x, pos.y) IN
  IF tile = NullTile \/ tile.kind # "ARROW" THEN [grid |-> g, steps |-> <<>>]
  ELSE LET dir == FirstDir(pieceMask(tile.pieceId, tile.rot), 1) IN
       IF dir = 0 THEN [grid |-> g, steps |-> <<>>]
       ELSE ArrowCleared(g, ArrowRun(g, pos.x + DIR_OFFSET(dir).dx, pos.y + DIR_OFFSET(dir).dy,
                                     DIR_OFFSET(dir), <<Pos(pos.x, pos.y)>>))

(***************************************************************************)
(* resolveAll, one pass of its while (true) loop at a time.                *)
(***************************************************************************)
\* A scan test that does not ask whether the network reaches the drain.
NetworkWinsWithoutDrain(st, g, network) ==
  /\ Len(network) # 0
  /\ checkNetworkValid(st, g, network)

InletWinsWithoutDrain(st, g, startX) ==
  /\ isTopColumnEnabled(st, startX)
  /\ NetworkWinsWithoutDrain(st, g, collectNetworkFromStart(g, startX))

\* The three tests the scan makes on the network of one inlet column.
NetworkWins(st, g, network) ==
  /\ Len(network) # 0
  /\ networkReachesBottom(g, network)
  /\ checkNetworkValid(st, g, network)

\* Whether the inlet scan of a pass stops at column startX: the column is
\* enabled and its network is non-empty, reaches the bottom and is valid.
InletWins(st, g, startX) ==
  /\ isTopColumnEnabled(st, startX)
  /\ NetworkWins(st, g, collectNetworkFromStart(g, startX))

\* A scan that prefers the highest winning column.
RECURSIVE ScanInletsDescending(_, _, _)
ScanInletsDescending(st, g, startX) ==
  IF startX >= Width(g) THEN -1
  ELSE LET later == ScanInletsDescending(st, g, startX + 1) IN
       IF later # -1 THEN later
       ELSE IF InletWins(st, g, startX) THEN startX ELSE -1

\* The for-loop over startX: the first column at which the scan stops, or -1.
RECURSIVE ScanInlets(_, _, _)
ScanInlets(st, g, startX) ==
  IF startX >= Width(g) THEN -1
  ELSE IF InletWins(st, g, startX) THEN startX
  ELSE ScanInlets(st, g, startX + 1)

\* A clear that pushes no FLOW_COUNT step.
ClearDroppedUncounted(g, network, gv) ==
  [grid |-> gv.grid,
   steps |-> << [type |-> "WATER", cells |-> WaterCells(g, network)],
                [type |-> "CLEAR", cells |-> network] >>
             \o (IF Len(gv.moves) > 0
                 THEN <<[type |-> "DROP", moves |-> gv.moves]>>
                 ELSE <<>>)]

ClearAndDropUncounted(g, network) ==
  ClearDroppedUncounted(g, network, applyGravity(clearCells(g, network)))

\* The WATER, CLEAR and FLOW_COUNT steps of a pass and the DROP step of the
\* gravity result gv.
ClearDropped(g, network, gv) ==
  [grid |-> gv.grid,
   steps |-> << [type |-> "WATER", cells |-> WaterCells(g, network)],
                [type |-> "CLEAR", cells |-> network],
                [type |-> "FLOW_COUNT", delta |-> 1] >>
             \o (IF Len(gv.moves) > 0
                 THEN <<[type |-> "DROP", moves |-> gv.moves]>>
                 ELSE <<>>)]

\* The steps pushed for the cleared network before the refill, and the grid
\* after clearCells and applyGravity.
ClearAndDrop(g, network) ==
  ClearDropped(g, network, applyGravity(clearCells(g, network)))

\* A refill reported as a SHIFT step.
RefillStepAsShift(moves) ==
  IF Len(moves) > 0 THEN <<[type |-> "SHIFT", moves |-> moves]>> ELSE <<>>

\* The refill DROP step, pushed when refillFromTop returned some move.
RefillStep(moves) ==
  IF Len(moves) > 0 THEN <<[type |-> "DROP", moves |-> moves]>> ELSE <<>>

\* The rest of a pass whose scan stopped at startX: clear, count, gravity,
\* refill.  [network, grid, rng, steps, threw]
PassRefilled(network, cd, rf) ==
  [network |-> network, grid |-> rf.grid, rng |-> rf.rng,
   steps |-> cd.steps \o RefillStep(rf.moves), threw |-> rf.threw]

PassCleared(st, rng0, network, cd) ==
  PassRefilled(network, cd, refillFromTop(st, cd.grid, rng0))

PassOf(st, g, rng0, network) ==
  PassCleared(st, rng0, network, ClearAndDrop(g, network))

ResolvePass(st, g, rng0, startX) == PassOf(st, g, rng0, collectNetworkFromStart(g, startX))

(***************************************************************************)
(* Stage configurations and the bounds of the model.                       *)
(***************************************************************************)
\* Operations explored per board.
MaxOps == 3
\* Clearing passes explored within one resolveAll call.
MaxPasses == 4

\* resolveAll as one call: the while loop run to its exit.
\* [threw, cut, grid, rng, steps, flowsGained]; cut: the call was still
\* clearing after MaxPasses passes and is not followed further.
RECURSIVE ResolveLoop(_, _, _, _, _)
\* After the clearing pass p: the sampler's error leaves the call, or the
\* loop goes round again.
ResolveLoopAfter(st, p, ss, fl) ==
  IF p.threw
  THEN [threw |-> TRUE, cut |-> FALSE, grid |-> p.grid, rng |-> p.rng,
        steps |-> ss \o p.steps, flowsGained |-> fl + 1]
  ELSE ResolveLoop(st, p.grid, p.rng, ss \o p.steps, fl + 1)

ResolveLoopAt(st, g, rng0, ss, fl, startX) ==
  IF startX = -1
  THEN [threw |-> FALSE, cut |-> FALSE, grid |-> g, rng |-> rng0, steps |-> ss, flowsGained |-> fl]
  ELSE IF fl >= MaxPasses
  THEN [threw |-> FALSE, cut |-> TRUE, grid |-> g, rng |-> rng0, steps |-> ss, flowsGained |-> fl]
  ELSE ResolveLoopAfter(st, ResolvePass(st, g, rng0, startX), ss, fl)

ResolveLoop(st, g, rng0, ss, fl) ==
  ResolveLoopAt(st, g, rng0, ss, fl, ScanInlets(st, g, 0))

resolveAll(st, g, rng0) == ResolveLoop(st, g, rng0, <<>>, 0)

IdSet == {PieceIds[i] : i \in 1 .. Len(PieceIds)}

AllColumns == [all |-> TRUE, cols |-> {}]
Columns(cols) == [all |-> FALSE, cols |-> cols]

\* The deck of stages/stage_001.ts.
DeckPipes ==
  [enabledPieces |-> [k \in IdSet |-> k \in {"I2", "L2", "T3"}],
   weights |-> [k \in IdSet |-> CASE k = "I2" -> 45 [] k = "L2" -> 45 [] k = "T3" -> 10 [] OTHER -> 0]]

\* A deck with every piece kind, arrows and stops included.
DeckAll ==
  [enabledPieces |-> [k \in IdSet |-> TRUE],
   weights |-> [k \in IdSet |-> CASE k = "I2" -> 30 [] k = "L2" -> 20 [] k = "T3" -> 10
                                   [] k = "X4" -> 5 [] k = "STOP1" -> 5 [] k = "ARROW" -> 30]]

\* A deck of straight pipes only.
DeckStraight ==
  [enabledPieces |-> [k \in IdSet |-> k = "I2"],
   weights |-> [k \in IdSet |-> IF k = "I2" THEN 1 ELSE 0]]

\* A deck whose weights are all zero: the initial fill draws from the base
\* initial weights, every later refill finds no selectable piece.
DeckEmpty ==
  [enabledPieces |-> [k \in IdSet |-> TRUE],
   weights |-> [k \in IdSet |-> 0]]

\* initialFill of stages/stage_001.ts, a fill from the deck, and no fill.
FillAll == [present |-> TRUE, rowsFromBottom |-> [hi |-> 0, lo |-> 999], useInitialWeights |-> TRUE,
            initialWeights |-> << >>]
FillRows(n) == [present |-> TRUE, rowsFromBottom |-> [hi |-> 0, lo |-> n], useInitialWeights |-> FALSE,
                initialWeights |-> << >>]
FillNone == [present |-> FALSE, rowsFromBottom |-> [hi |-> 0, lo |-> 0], useInitialWeights |-> FALSE,
             initialWeights |-> << >>]

MkStage(w, h, mode, top, bottom, deck, fill, seed) ==
  [width |-> w, height |-> h, mode |-> mode, top |-> top, bottom |-> bottom,
   enabledPieces |-> deck.enabledPieces, weights |-> deck.weights, seed |-> seed,
   fill |-> fill, goal |-> 3]

Stages ==
  {MkStage(2, 2, "ANY_EDGE", AllColumns, AllColumns, DeckPipes, FillAll, sd) : sd \in {3, 9, 24, 1506}}
  \cup {MkStage(2, 1, "ANY_EDGE", AllColumns, AllColumns, DeckPipes, FillAll, sd) : sd \in {6, 12, 36}}
  \cup {MkStage(2, 2, "MASKED", Columns({1}), Columns({0}), DeckPipes, FillAll, sd) : sd \in {9, 13}}
  \cup {MkStage(1, 2, "MASKED", AllColumns, AllColumns, DeckPipes, FillRows(1), sd) : sd \in {6}}
  \cup {MkStage(2, 2, "MASKED", AllColumns, AllColumns, DeckAll, FillRows(2), sd) : sd \in {5, 14}}
  \cup {MkStage(1, 1, "ANY_EDGE", AllColumns, AllColumns, DeckStraight, FillAll, sd) : sd \in {1, 9}}
  \cup {MkStage(1, 1, "ANY_EDGE", AllColumns, AllColumns, DeckEmpty, FillAll, sd) : sd \in {1, 9}}
    \cup {MkStage(1, 3, "MASKED", AllColumns, AllColumns, DeckAll, FillRows(2), sd) : sd \in {27}}

(***************************************************************************)
(* The engine as a state machine: one BoardModel and its caller.  Every    *)
(* operation runs to completion; what it returned stays in ret until the   *)
(* caller goes on to its next call.                                        *)
(***************************************************************************)
VARIABLES
  stage,       \* the StageConfig the board was built from
  grid,        \* BoardModel.grid
  rng,         \* BoardModel.rng (the XorShift32 state)
  waterFlows,  \* BoardModel.waterFlows
  pc,          \* "idle", "resolving" (inside resolveAll), "returned", "failed" (constructor threw)
  steps,       \* resolveAll's local steps
  flows,       \* resolveAll's local flows
  passes,      \* clearing passes of the resolveAll call in progress
  clearLog,    \* per clear of the current resolveAll call: the grid before it, the network, the inlet
  pre,         \* grid, rng and waterFlows when the current operation was called
  ret,         \* the current operation, its arguments and what it returned
  nOps,        \* operations called so far
  iter,        \* iterations of resolveAll's while loop in the current call, modulo 2
  twin,        \* two BoardModel instances built from the same stage, and their RNG objects
  heap,        \* which Tile object each cell of the grid refers to, and the tiles of returned moves
  drop,        \* currentPiece and aimColumn, the fields of the drop-style API
  scene        \* GameScene, its GameStateManager and BoardInputController, and the async calls in flight

vars == <<stage, grid, rng, waterFlows, pc, steps, flows, passes, clearLog, pre, ret, nOps, iter, twin,
          heap, drop, scene>>

NoOut == [threw |-> FALSE, steps |-> <<>>, flowsGained |-> 0, moves |-> <<>>]
NoRet == [op |-> "none", args |-> <<>>, out |-> NoOut]
NoPre == [grid |-> << >>, rng |-> [hi |-> 0, lo |-> 0], waterFlows |-> 0]

\* The values of twin, heap, drop and scene where no second instance and no
\* scene exist and the objects behind the cells and the drop-style fields are
\* not followed.
NoTwin == << >>
NoHeap == << >>
NoDrop == << >>
NoScene == << >>

Snapshot == [grid |-> grid, rng |-> rng, waterFlows |-> waterFlows]

Cells(g) == {Pos(x, y) : x \in 0 .. Width(g) - 1, y \in 0 .. Height(g) - 1}

\* The coordinates a caller passes: every cell and three outside the board
\* (x out of range, y out of range, both).
ProbeCells(g) == Cells(g) \cup {Pos(-1, 0), Pos(0, -1), Pos(Width(g), Height(g))}

\* The paths a caller passes to shiftAlongPath.
ProbePaths(g) ==
  {<<a, b>> : a \in Cells(g), b \in Cells(g)}
  \cup {<<a>> : a \in Cells(g)}
  \cup {<<a, b, a>> : a \in Cells(g), b \in Cells(g)}
  \cup {<<a, Pos(-1, 0)>> : a \in Cells(g)}

Init ==
  \E st \in Stages :
    LET b == NewBoard(st) IN
      /\ stage = st
      /\ grid = b.grid
      /\ rng = b.rng
      /\ waterFlows = 0
      /\ pc = IF b.threw THEN "failed" ELSE "idle"
      /\ steps = <<>>
      /\ flows = 0
      /\ passes = 0
      /\ clearLog = <<>>
      /\ pre = NoPre
      /\ ret = NoRet
      /\ nOps = 0
      /\ iter = 0
      /\ twin = NoTwin
      /\ heap = NoHeap
      /\ drop = NoDrop
      /\ scene = NoScene

CanCall == pc = "idle" /\ nOps < MaxOps

Called(op, args, out) ==
  /\ pre' = Snapshot
  /\ ret' = [op |-> op, args |-> args, out |-> out]
  /\ nOps' = nOps + 1

RotateCellCW(x, y) ==
  /\ CanCall
  /\ grid' = rotateCellCW(grid, x, y)
  /\ pc' = "returned"
  /\ Called("rotateCellCW", <<x, y>>, NoOut)
  /\ UNCHANGED <<stage, twin, heap, drop, scene, rng, waterFlows, steps, flows, passes, clearLog, iter>>

SwapCells(a, b) ==
  /\ CanCall
  /\ grid' = swapCells(grid, a, b)
  /\ pc' = "returned"
  /\ Called("swapCells", <<a, b>>, NoOut)
  /\ UNCHANGED <<stage, twin, heap, drop, scene, rng, waterFlows, steps, flows, passes, clearLog, iter>>

ShiftAlongPath(path) ==
  /\ CanCall
  /\ LET r == shiftAlongPath(grid, path) IN
       /\ grid' = r.grid
       /\ Called("shiftAlongPath", path, [NoOut EXCEPT !.moves = r.moves])
  /\ pc' = "returned"
  /\ UNCHANGED <<stage, twin, heap, drop, scene, rng, waterFlows, steps, flows, passes, clearLog, iter>>

\* A trigger that counts one flow.
TriggerArrowAtCounted(pos) ==
  /\ CanCall
  /\ \E r \in {triggerArrowAt(grid, pos)} :
       /\ grid' = r.grid
       /\ Called("triggerArrowAt", <<pos>>, [NoOut EXCEPT !.steps = r.steps])
  /\ pc' = "returned"
  /\ waterFlows' = waterFlows + 1
  /\ UNCHANGED <<stage, twin, heap, drop, scene, rng, steps, flows, passes, clearLog, iter>>

TriggerArrowAt(pos) ==
  /\ CanCall
  /\ LET r == triggerArrowAt(grid, pos) IN
       /\ grid' = r.grid
       /\ Called("triggerArrowAt", <<pos>>, [NoOut EXCEPT !.steps = r.steps])
  /\ pc' = "returned"
  /\ UNCHANGED <<stage, twin, heap, drop, scene, rng, waterFlows, steps, flows, passes, clearLog, iter>>

\* resolveAll is entered: its locals are initialised.
ResolveAllCall ==
  /\ CanCall
  /\ pc' = "resolving"
  /\ steps' = <<>>
  /\ flows' = 0
  /\ passes' = 0
  /\ clearLog' = <<>>
  /\ iter' = 0
  /\ Called("resolveAll", <<>>, NoOut)
  /\ UNCHANGED <<stage, twin, heap, drop, scene, grid, rng, waterFlows>>

\* A pass of the while loop whose inlet scan stops at a column: the network
\* is cleared, gravity and refill run, and the loop goes round again (or the
\* sampler's error leaves resolveAll).
ResolveClearPass ==
  /\ pc = "resolving"
  /\ passes < MaxPasses
  /\ LET startX == ScanInlets(stage, grid, 0) IN
       /\ startX # -1
       /\ \E p \in {ResolvePass(stage, grid, rng, startX)} :
              /\ grid' = p.grid
              /\ rng' = p.rng
              /\ waterFlows' = waterFlows + 1
              /\ flows' = flows + 1
              /\ passes' = passes + 1
              /\ clearLog' = Append(clearLog, [grid |-> grid, network |-> p.network, startX |-> startX])
              /\ steps' = steps \o p.steps
              /\ pc' = IF p.threw THEN "returned" ELSE "resolving"
              /\ ret' = IF p.threw THEN [ret EXCEPT !.out.threw = TRUE] ELSE ret
  /\ iter' = 1 - iter
  /\ UNCHANGED <<stage, twin, heap, drop, scene, pre, nOps>>

\* A resolveAll that returns after its first clearing pass.
ResolveReturnAfterOnePass ==
  /\ pc = "resolving"
  /\ ScanInlets(stage, grid, 0) = -1 \/ passes >= 1
  /\ pc' = "returned"
  /\ ret' = [ret EXCEPT !.out.steps = steps, !.out.flowsGained = flows]
  /\ iter' = 1 - iter
  /\ UNCHANGED <<stage, twin, heap, drop, scene, grid, rng, waterFlows, steps, flows, passes, clearLog, pre, nOps>>

\* The pass in which no inlet wins: resolveAll returns {steps, flowsGained}.
ResolveReturn ==
  /\ pc = "resolving"
  /\ ScanInlets(stage, grid, 0) = -1
  /\ pc' = "returned"
  /\ ret' = [ret EXCEPT !.out.steps = steps, !.out.flowsGained = flows]
  /\ iter' = 1 - iter
  /\ UNCHANGED <<stage, twin, heap, drop, scene, grid, rng, waterFlows, steps, flows, passes, clearLog, pre, nOps>>

\* The caller of a resolveAll that returned calls resolveAll() again at once:
\* the whole second call, its result in ret and the state it was called in
\* in pre.
ResolveAllAgain ==
  /\ pc = "returned"
  /\ ret.op = "resolveAll"
  /\ ~ret.out.threw
  /\ \E r \in {resolveAll(stage, grid, rng)} :
       /\ ~r.cut
       /\ grid' = r.grid
       /\ rng' = r.rng
       /\ waterFlows' = waterFlows + r.flowsGained
       /\ ret' = [op |-> "resolveAllAgain", args |-> <<>>,
                  out |-> [NoOut EXCEPT !.threw = r.threw, !.steps = r.steps,
                                        !.flowsGained = r.flowsGained]]
  /\ pre' = Snapshot
  /\ UNCHANGED <<stage, twin, heap, drop, scene, pc, steps, flows, passes, clearLog, nOps, iter>>

\* The caller goes on: the returned value and the call's locals are dropped.
CallerContinues ==
  /\ pc = "returned"
  /\ pc' = "idle"
  /\ steps' = <<>>
  /\ flows' = 0
  /\ passes' = 0
  /\ clearLog' = <<>>
  /\ pre' = NoPre
  /\ ret' = NoRet
  /\ iter' = 0
  /\ UNCHANGED <<stage, twin, heap, drop, scene, grid, rng, waterFlows, nOps>>

Next ==
  \/ \E c \in ProbeCells(grid) : RotateCellCW(c.x, c.y)
  \/ \E a \in ProbeCells(grid), b \in ProbeCells(grid) : SwapCells(a, b)
  \/ \E path \in ProbePaths(grid) : ShiftAlongPath(path)
  \/ \E c \in ProbeCells(grid) : TriggerArrowAt(c)
  \/ ResolveAllCall
  \/ ResolveClearPass
  \/ ResolveReturn
  \/ ResolveAllAgain
  \/ CallerContinues

Spec == Init /\ [][Next]_vars

(***************************************************************************)
(* Properties of resolveAll.                                               *)
(***************************************************************************)
Full(g) == \A c \in Cells(g) : g[c.y][c.x] # NullTile

\* resolveAll has just returned {steps, flowsGained} to its caller.
ResolveReturned == pc = "returned" /\ ret.op = "resolveAll" /\ ~ret.out.threw

StepsOfType(ss, type) == {i \in 1 .. Len(ss) : ss[i].type = type}

\* C1 as claimed: whenever resolveAll returns, every grid cell is occupied,
\* whether or not the call cleared anything.  (Refuted: a call that clears
\* nothing leaves the voids of a partial initial fill or of an arrow.)
C1_FullOnEveryReturn == ResolveReturned => Full(grid)

\* C1, amended: when resolveAll returns, every grid cell is occupied provided
\* the call cleared at least one network or the grid was fully occupied when
\* the call was made.
C1_FullAfterClearOrFullBefore ==
  (ResolveReturned /\ (ret.out.flowsGained > 0 \/ Full(pre.grid))) => Full(grid)

\* A call made on a grid with voids that cleared a network and returned.
C1_Witness == ResolveReturned /\ ret.out.flowsGained > 0 /\ ~Full(pre.grid) /\ Full(grid)

\* The set of a network's cells and the leak-freedom of one open connector,
\* stated on the grid as it was before the clear.
OpenAt(g, p, d) == hasBit(pieceMask(g[p.y][p.x].pieceId, g[p.y][p.x].rot), d)

Neighbour(p, d) == Pos(p.x + DIR_OFFSET(d).dx, p.y + DIR_OFFSET(d).dy)

ConnectorSealed(st, g, cells, p, d) ==
  LET n == Neighbour(p, d) IN
  IF n \in Cells(g)
  THEN g[n.y][n.x] # NullTile /\ OpenAt(g, n, OPPOSITE(d)) /\ n \in cells
  ELSE \/ (d = DirU /\ p.y = 0
           /\ (st.mode = "ANY_EDGE" \/ st.top.all \/ p.x \in st.top.cols))
       \/ (d = DirD /\ p.y = st.height - 1
           /\ (st.mode = "ANY_EDGE" \/ st.bottom.all \/ p.x \in st.bottom.cols))

LeakFree(st, g, cells) ==
  \A p \in cells :
    /\ p \in Cells(g)
    /\ g[p.y][p.x] # NullTile
    /\ \A d \in {DirU, DirR, DirD, DirL} : OpenAt(g, p, d) => ConnectorSealed(st, g, cells, p, d)

SeqSet(s) == {s[i] : i \in 1 .. Len(s)}

\* The i-th CLEAR step of a step list (its index in the list).
RECURSIVE NthOfType(_, _, _, _)
NthOfType(ss, type, n, i) ==
  IF i > Len(ss) THEN 0
  ELSE IF ss[i].type = type
       THEN (IF n = 1 THEN i ELSE NthOfType(ss, type, n - 1, i + 1))
       ELSE NthOfType(ss, type, n, i + 1)

\* C2: every CLEAR step emitted by resolveAll lists, on the grid as it was
\* immediately before that clear, occupied cells whose every open connector
\* points off-grid at an enabled inlet or drain index or at an occupied
\* neighbour of the cleared set with the opposite direction open.
C2_ClearedSetsAreLeakFree ==
  /\ Cardinality(StepsOfType(steps, "CLEAR")) = Len(clearLog)
  /\ \A i \in 1 .. Len(clearLog) :
       LET k == NthOfType(steps, "CLEAR", i, 1) IN
         /\ k # 0
         /\ LeakFree(stage, clearLog[i].grid, SeqSet(steps[k].cells))

\* A returned call whose CLEAR step lists a network of three cells or more.
C2_Witness ==
  /\ ResolveReturned
  /\ \E k \in StepsOfType(ret.out.steps, "CLEAR") : Len(ret.out.steps[k].cells) >= 3

\* C3: the flowsGained resolveAll returns is the number of CLEAR steps and the
\* number of FLOW_COUNT steps of the returned list, each with delta = 1.
C3_FlowCountConsistent ==
  ResolveReturned =>
    /\ ret.out.flowsGained = Cardinality(StepsOfType(ret.out.steps, "CLEAR"))
    /\ ret.out.flowsGained = Cardinality(StepsOfType(ret.out.steps, "FLOW_COUNT"))
    /\ \A k \in StepsOfType(ret.out.steps, "FLOW_COUNT") : ret.out.steps[k].delta = 1

\* A returned call that gained two flows or more.
C3_Witness == ResolveReturned /\ ret.out.flowsGained >= 2

\* The conditions under which the scan of a pass stops at column x, on grid g.
ValidNetworkAt(st, g, x) ==
  LET network == collectNetworkFromStart(g, x) IN
    /\ (st.mode = "ANY_EDGE" \/ st.top.all \/ x \in st.top.cols)
    /\ Len(network) > 0
    /\ networkReachesBottom(g, network)
    /\ checkNetworkValid(st, g, network)

\* C5: the network each pass clears is the network of the smallest-index
\* enabled inlet whose network is non-empty, reaches the drain and passes
\* validation on the grid of that pass: no lower inlet has such a network,
\* also in the passes that follow a clear (the scan restarts from inlet 0).
C5_LowestInletWins ==
  \A i \in 1 .. Len(clearLog) :
    LET e == clearLog[i] IN
      /\ e.startX \in 0 .. stage.width - 1
      /\ ValidNetworkAt(stage, e.grid, e.startX)
      /\ e.network = collectNetworkFromStart(e.grid, e.startX)
      /\ \A x \in 0 .. e.startX - 1 : ~ValidNetworkAt(stage, e.grid, x)

\* A call in which a pass cleared the network of a lower inlet than the pass
\* before it did.
C5_Witness ==
  /\ ResolveReturned
  /\ \E i \in 1 .. Len(clearLog) - 1 : clearLog[i + 1].startX < clearLog[i].startX

IsRefillDrop(s) ==
  /\ s.type = "DROP"
  /\ Len(s.moves) > 0
  /\ \A m \in 1 .. Len(s.moves) : s.moves[m].from.y = -1

IsGravityDrop(s) ==
  /\ s.type = "DROP"
  /\ Len(s.moves) > 0
  /\ \A m \in 1 .. Len(s.moves) :
       /\ s.moves[m].from.y >= 0
       /\ s.moves[m].from.x = s.moves[m].to.x
       /\ s.moves[m].to.y > s.moves[m].from.y

\* A step list from index i on is a concatenation of groups
\* WATER, CLEAR, FLOW_COUNT, [gravity DROP], refill DROP.
RECURSIVE GroupsFrom(_, _)
GroupsFrom(ss, i) ==
  IF i > Len(ss) THEN TRUE
  ELSE /\ i + 3 <= Len(ss)
       /\ ss[i].type = "WATER"
       /\ ss[i + 1].type = "CLEAR"
       /\ ss[i + 2].type = "FLOW_COUNT"
       /\ \/ IsRefillDrop(ss[i + 3]) /\ GroupsFrom(ss, i + 4)
          \/ /\ i + 4 <= Len(ss)
             /\ IsGravityDrop(ss[i + 3])
             /\ IsRefillDrop(ss[i + 4])
             /\ GroupsFrom(ss, i + 5)

\* C6: the returned step list is a concatenation of groups WATER, CLEAR,
\* FLOW_COUNT, a gravity DROP only when some tile changed row, and a refill
\* DROP; it holds no SHIFT step and no DROP with an empty move list, and every
\* FLOW_COUNT is followed by a DROP before the next WATER.
C6_StepGroups ==
  ResolveReturned =>
    LET ss == ret.out.steps IN
      /\ GroupsFrom(ss, 1)
      /\ \A k \in 1 .. Len(ss) :
           /\ ss[k].type \in {"WATER", "CLEAR", "FLOW_COUNT", "DROP"}
           /\ (ss[k].type = "DROP" => Len(ss[k].moves) > 0)
           /\ (ss[k].type = "FLOW_COUNT" => (k < Len(ss) /\ ss[k + 1].type = "DROP"))

\* A returned list with a group that has a gravity DROP and a group that has
\* none.
C6_Witness ==
  /\ ResolveReturned
  /\ \E k \in StepsOfType(ret.out.steps, "FLOW_COUNT") :
       IsGravityDrop(ret.out.steps[k + 1])
  /\ \E k \in StepsOfType(ret.out.steps, "FLOW_COUNT") :
       IsRefillDrop(ret.out.steps[k + 1])

\* C7: a resolveAll call made when no enabled inlet has a non-empty,
\* drain-reaching, valid network returns an empty step list and flowsGained 0
\* and leaves the grid, the flow counter and the RNG state as they were.
C7_NoNetworkNoChange ==
  (ResolveReturned /\ \A x \in 0 .. stage.width - 1 : ~ValidNetworkAt(stage, pre.grid, x)) =>
    /\ ret.out.steps = <<>>
    /\ ret.out.flowsGained = 0
    /\ grid = pre.grid
    /\ waterFlows = pre.waterFlows
    /\ rng = pre.rng

\* A call that returned empty-handed although some inlet had a non-empty
\* network, on a board whose RNG had been drawn from by an earlier call.
C7_Witness ==
  /\ ResolveReturned
  /\ ret.out.steps = <<>>
  /\ \E x \in 0 .. stage.width - 1 : Len(collectNetworkFromStart(pre.grid, x)) >= 2
  /\ waterFlows > 0

\* C9 as claimed: resolveAll caps the clearing passes of one call and raises
\* an error when the cap is exceeded.  The loop of the code keeps no pass
\* count, so the cap is taken to be the largest count the model follows: a
\* call that has made MaxPasses clearing passes is no longer looping.
\* (Refuted: the call is still inside its while loop, with no error raised.)
C9_PassCapReported == (pc = "resolving") => (passes < MaxPasses)

(***************************************************************************)
(* resolveAll over every sequence of refill samples: the tiles a refill    *)
(* places are any tiles the deck can produce, whatever the RNG state.      *)
(* The loop's accumulators (steps, flows, waterFlows) are never read by    *)
(* its conditions; they are left out or saturated so that a loop that      *)
(* repeats a grid is a cycle of states.                                    *)
(***************************************************************************)
\* The tiles spawnNextPiece can return for a deck.
SampleTiles(st) ==
  {[kind |-> PIECE_DEFS(k).kind, pieceId |-> k, rot |-> r] :
     k \in {id \in IdSet : Selectable(st.weights, st.enabledPieces, id)}, r \in 0 .. 3}

\* The grids refillFromTop can leave: every empty cell holds a sampled tile,
\* every other cell is untouched.
RefillGrids(st, g) ==
  {h \in [0 .. Height(g) - 1 -> [0 .. Width(g) - 1 -> SampleTiles(st) \cup {NullTile}]] :
     \A y \in 0 .. Height(g) - 1 : \A x \in 0 .. Width(g) - 1 :
       IF g[y][x] = NullTile THEN h[y][x] # NullTile ELSE h[y][x] = g[y][x]}

SampledStages ==
  {MkStage(1, 1, "ANY_EDGE", AllColumns, AllColumns, DeckStraight, FillAll, 1),
   MkStage(2, 1, "ANY_EDGE", AllColumns, AllColumns, DeckPipes, FillAll, 1),
   MkStage(1, 2, "MASKED", AllColumns, AllColumns, DeckPipes, FillAll, 1)}

SampledInit ==
  \E st \in SampledStages :
    /\ stage = st
    /\ grid \in RefillGrids(st, EmptyGrid(st.width, st.height))
    /\ rng = XorShiftNew(st.seed)
    /\ waterFlows = 0
    /\ pc = "idle"
    /\ steps = <<>>
    /\ flows = 0
    /\ passes = 0
    /\ clearLog = <<>>
    /\ pre = NoPre
    /\ ret = NoRet
    /\ nOps = 0
    /\ iter = 0
    /\ twin = NoTwin
    /\ heap = NoHeap
    /\ drop = NoDrop
    /\ scene = NoScene

Saturate(n) == IF n < MaxPasses THEN n + 1 ELSE n

SampledResolveAllCall ==
  /\ pc = "idle"
  /\ pc' = "resolving"
  /\ flows' = 0
  /\ passes' = 0
  /\ ret' = [op |-> "resolveAll", args |-> <<>>, out |-> NoOut]
  /\ iter' = 0
  /\ UNCHANGED <<stage, twin, heap, drop, scene, grid, rng, waterFlows, steps, clearLog, pre, nOps>>

SampledClearPass ==
  /\ pc = "resolving"
  /\ LET startX == ScanInlets(stage, grid, 0) IN
       /\ startX # -1
       /\ LET cd == ClearAndDrop(grid, collectNetworkFromStart(grid, startX)) IN
            grid' \in RefillGrids(stage, cd.grid)
  /\ waterFlows' = Saturate(waterFlows)
  /\ flows' = Saturate(flows)
  /\ passes' = Saturate(passes)
  /\ iter' = 1 - iter
  /\ UNCHANGED <<stage, twin, heap, drop, scene, rng, pc, steps, clearLog, pre, ret, nOps>>

SampledReturn ==
  /\ pc = "resolving"
  /\ ScanInlets(stage, grid, 0) = -1
  /\ pc' = "returned"
  /\ ret' = [ret EXCEPT !.out.flowsGained = flows]
  /\ iter' = 1 - iter
  /\ UNCHANGED <<stage, twin, heap, drop, scene, grid, rng, waterFlows, steps, flows, passes, clearLog, pre, nOps>>

SampledNext ==
  \/ SampledResolveAllCall
  \/ SampledClearPass
  \/ SampledReturn
  \/ CallerContinues

\* One more iteration of the while loop of the call in progress.
LoopIteration == pc = "resolving" /\ iter' = 1 - iter

\* resolveAll is synchronous code: once entered, its loop keeps taking its
\* next iteration, a clearing pass or the pass that returns.
SampledSpec ==
  /\ SampledInit
  /\ [][SampledNext]_vars
  /\ WF_iter(LoopIteration)

\* The fairness above does make a call return from a grid on which no inlet
\* has a valid network.
SampledFixpointReturns ==
  (pc = "resolving" /\ ScanInlets(stage, grid, 0) = -1) ~> (pc = "returned")

\* C10 as claimed: every resolveAll call terminates, whatever the grid, the
\* stage and the refill samples: the loop reaches a pass in which no enabled
\* inlet has a valid drain-reaching network, and returns.  (Refuted: samples
\* that rebuild a valid network at every refill keep the loop going.)
C10_EveryCallTerminates ==
  (pc = "resolving") ~> (pc = "returned" /\ ScanInlets(stage, grid, 0) = -1)

(***************************************************************************)
(* Two BoardModel instances built from one stage configuration with an     *)
(* explicit seed.  A caller picks a call and makes it on one instance,     *)
(* then on the other.  twin.heap holds the XorShift32 objects; an          *)
(* instance reaches its own through RngOwner.                              *)
(***************************************************************************)
Instances == {"a", "b"}

OtherInstance(i) == IF i = "a" THEN "b" ELSE "a"

\* An instance sharing the first instance's XorShift32 object.
RngOwnerShared(i) == "a"

\* The XorShift32 object behind this.rng: the constructor of each instance
\* creates its own (this.rng = new XorShift32(seed)).
RngOwner(i) == i

NoCall == [name |-> "none", args |-> <<>>]

\* new BoardModel(st) for instance i.
TwinConstruct(t, st, i) ==
  LET b == NewBoard(st) IN
  [t EXCEPT ![i] = [grid |-> b.grid, waterFlows |-> 0, out |-> NoOut],
            !.heap[RngOwner(i)] = b.rng]

\* Instance i after its resolveAll returned r.
TwinResolved(t, i, r) ==
  [t EXCEPT ![i].grid = r.grid,
            ![i].waterFlows = @ + r.flowsGained,
            ![i].out = [NoOut EXCEPT !.threw = r.threw, !.steps = r.steps,
                                     !.flowsGained = r.flowsGained],
            !.heap[RngOwner(i)] = r.rng]

\* One call made on instance i.
TwinApply(t, st, i, call) ==
  LET g == t[i].grid IN
  CASE call.name = "rotateCellCW" ->
         [t EXCEPT ![i].grid = rotateCellCW(g, call.args[1].x, call.args[1].y), ![i].out = NoOut]
    [] call.name = "swapCells" ->
         [t EXCEPT ![i].grid = swapCells(g, call.args[1], call.args[2]), ![i].out = NoOut]
    [] call.name = "resolveAll" ->
         TwinResolved(t, i, resolveAll(st, g, t.heap[RngOwner(i)]))

\* What a caller can observe of instance i, and the state of its RNG.
TwinView(t, i) ==
  [grid |-> t[i].grid, waterFlows |-> t[i].waterFlows, out |-> t[i].out,
   rng |-> t.heap[RngOwner(i)]]

TwinStages ==
  {MkStage(2, 2, "ANY_EDGE", AllColumns, AllColumns, DeckPipes, FillAll, sd) : sd \in {9, 1506}}
  \cup {MkStage(2, 1, "ANY_EDGE", AllColumns, AllColumns, DeckPipes, FillAll, sd) : sd \in {6, 12}}
  \cup {MkStage(1, 1, "ANY_EDGE", AllColumns, AllColumns, DeckStraight, FillAll, sd) : sd \in {9}}

TwinInit ==
  /\ stage \in TwinStages
  /\ LET t0 == [a |-> [grid |-> <<>>, waterFlows |-> 0, out |-> NoOut],
                b |-> [grid |-> <<>>, waterFlows |-> 0, out |-> NoOut],
                heap |-> [i \in Instances |-> [hi |-> 0, lo |-> 0]],
                turn |-> "both", call |-> NoCall, held |-> <<>>, calls |-> 0]
         t2 == TwinConstruct(TwinConstruct(t0, stage, "a"), stage, "b")
     IN  twin = t2
  /\ grid = <<>>
  /\ rng = [hi |-> 0, lo |-> 0]
  /\ waterFlows = 0
  /\ pc = "idle"
  /\ steps = <<>>
  /\ flows = 0
  /\ passes = 0
  /\ clearLog = <<>>
  /\ pre = NoPre
  /\ ret = NoRet
  /\ nOps = 0
  /\ iter = 0
  /\ heap = NoHeap
  /\ drop = NoDrop
  /\ scene = NoScene

TwinFrame ==
  UNCHANGED <<stage, grid, rng, waterFlows, pc, steps, flows, passes, clearLog, pre, ret,
              nOps, iter, heap, drop, scene>>

\* The caller makes its next call on instance i first.
TwinCall(i, call) ==
  /\ twin.turn = "both"
  /\ twin.calls < MaxOps
  /\ call.name = "resolveAll" => ~resolveAll(stage, twin[i].grid, twin.heap[RngOwner(i)]).cut
  /\ twin' = [TwinApply(twin, stage, i, call) EXCEPT
                !.turn = OtherInstance(i), !.call = call,
                !.held = TwinView(twin, OtherInstance(i))]
  /\ TwinFrame

TwinRotateCellCW(i, c) == TwinCall(i, [name |-> "rotateCellCW", args |-> <<c>>])

TwinSwapCells(i, a, b) == TwinCall(i, [name |-> "swapCells", args |-> <<a, b>>])

TwinResolveAll(i) == TwinCall(i, [name |-> "resolveAll", args |-> <<>>])

\* The same call is made on the other instance.
TwinSecondCall ==
  /\ twin.turn \in Instances
  /\ twin' = [TwinApply(twin, stage, twin.turn, twin.call) EXCEPT
                !.turn = "both", !.calls = @ + 1]
  /\ TwinFrame

TwinNext ==
  \/ \E i \in Instances : \E c \in Cells(twin.a.grid) : TwinRotateCellCW(i, c)
  \/ \E i \in Instances : \E a \in Cells(twin.a.grid), b \in Cells(twin.a.grid) : TwinSwapCells(i, a, b)
  \/ \E i \in Instances : TwinResolveAll(i)
  \/ TwinSecondCall

TwinSpec == TwinInit /\ [][TwinNext]_vars

MaxTasks == 2

Pointers == {1, 2}

\* "undefined" for downCell and candidate, and a pointer outside the board.
NoCell == Pos(-1, -1)

SceneStages ==
  {MkStage(2, 1, "ANY_EDGE", AllColumns, AllColumns, DeckPipes, FillAll, sd) : sd \in {1, 19}}

\* The scene and its model, as the code between two awaits reads and writes them.
World == [sc |-> scene, grid |-> grid, rng |-> rng, waterFlows |-> waterFlows, cut |-> FALSE]

\* The resolveAndAnimate calls between startResolving and the end of playSteps.
Playing(sc) == {k \in 1 .. Len(sc.tasks) : sc.tasks[k].at = "playSteps"}

\* A rotateCellCW, swapCells or resolveAll call reaches the model.
ModelCalled(w) == [w EXCEPT !.sc.overlap = @ \/ Playing(w.sc) # {}]

canInteract(sc) == sc.state = "PLAYING"

startResolving(sc) == [sc EXCEPT !.state = "RESOLVING"]

\* A finishResolving without the test for CLEAR.
finishResolvingAlways(sc) == [sc EXCEPT !.state = "PLAYING"]

finishResolving(sc) == IF sc.state = "CLEAR" THEN sc ELSE [sc EXCEPT !.state = "PLAYING"]

cleanupDrag(sc) == [sc EXCEPT !.ghost = FALSE, !.candidate = NoCell]

\* resolveAndAnimate after the await of playSteps.
ResolveFinish(w) ==
  IF w.sc.flows >= stage.goal
  THEN [w EXCEPT !.sc.state = "CLEAR"]
  ELSE [w EXCEPT !.sc = finishResolving(@)]

\* resolveAndAnimate up to the await of playSteps: [w, suspended, threw].  An
\* empty step list is played without waiting for any tween or timer.  When
\* resolveAll throws, the model keeps what the call had written and the
\* error leaves resolveAndAnimate before addWaterFlow.
Resolved(w, r) ==
  [w |-> [w EXCEPT !.grid = r.grid, !.rng = r.rng,
                   !.waterFlows = @ + r.flowsGained,
                   !.sc.flows = IF r.threw THEN @
                                ELSE @ + (IF r.flowsGained > 0 THEN r.flowsGained ELSE 0),
                   !.cut = r.cut],
   suspended |-> ~r.threw /\ r.steps # <<>>,
   threw |-> r.threw]

AwaitPlaySteps(rs) ==
  IF rs.threw \/ rs.suspended THEN rs ELSE [rs EXCEPT !.w = ResolveFinish(@)]

ResolveStart(w) ==
  IF w.sc.state = "CLEAR" THEN [w |-> w, suspended |-> FALSE, threw |-> FALSE]
  ELSE AwaitPlaySteps(Resolved(ModelCalled([w EXCEPT !.sc = startResolving(@)]),
                               resolveAll(stage, w.grid, w.rng)))

Task(at, kind, start, end) == [at |-> at, kind |-> kind, start |-> start, end |-> end]

\* A gesture whose error skips the unlock.
AfterResolveStartWithoutFinally(rs, kind) ==
  IF rs.threw THEN rs.w
  ELSE IF rs.suspended
  THEN [rs.w EXCEPT !.sc.tasks = Append(@, Task("playSteps", kind, NoCell, NoCell))]
  ELSE IF kind = "create" THEN [rs.w EXCEPT !.sc.attached = TRUE]
  ELSE [rs.w EXCEPT !.sc = finishResolving(@)]

\* try { <model call>; await resolveAllWithAnimations() } finally { unlockInteract() }
\* An error thrown in create leaves create before setupBoardInput.
AfterResolveStart(rs, kind) ==
  IF rs.threw
  THEN (IF kind = "create" THEN rs.w ELSE [rs.w EXCEPT !.sc = finishResolving(@)])
  ELSE IF rs.suspended
  THEN [rs.w EXCEPT !.sc.tasks = Append(@, Task("playSteps", kind, NoCell, NoCell))]
  ELSE IF kind = "create" THEN [rs.w EXCEPT !.sc.attached = TRUE]
  ELSE [rs.w EXCEPT !.sc = finishResolving(@)]

LockedResolve(w) == AfterResolveStart(ResolveStart(w), "gesture")

\* onUp, the tap branch.
TapFlow(w, start) ==
  LockedResolve([ModelCalled([w EXCEPT !.sc = startResolving(cleanupDrag(@))])
                   EXCEPT !.grid = rotateCellCW(@, start.x, start.y)])

\* onUp, after await dropTo(end).
SwapFlow(w, start, end) ==
  LockedResolve([ModelCalled([w EXCEPT !.sc = startResolving(cleanupDrag(@))])
                   EXCEPT !.grid = swapCells(@, start, end)])

RemoveAt(q, k) == SubSeq(q, 1, k - 1) \o SubSeq(q, k + 1, Len(q))

\* The scene before create() runs, on stage st.
SceneInitOn(st) ==
    LET b == NewBoard(st) IN
      /\ stage = st
      /\ grid = b.grid
      /\ rng = b.rng
      /\ waterFlows = 0
      /\ scene = [state |-> "PLAYING", flows |-> 0, attached |-> FALSE,
                  pointerId |-> 0, downCell |-> NoCell, dragging |-> FALSE,
                  candidate |-> NoCell, ghost |-> FALSE, held |-> {},
                  tasks |-> <<Task("start", "create", NoCell, NoCell)>>,
                  overlap |-> FALSE]
      /\ pc = "idle"
      /\ steps = <<>>
      /\ flows = 0
      /\ passes = 0
      /\ clearLog = <<>>
      /\ pre = NoPre
      /\ ret = NoRet
      /\ nOps = 0
      /\ iter = 0
      /\ twin = NoTwin
      /\ heap = NoHeap
      /\ drop = NoDrop

SceneInit == \E st \in SceneStages : SceneInitOn(st)

SceneFrame ==
  UNCHANGED <<stage, pc, steps, flows, passes, clearLog, pre, ret, nOps, iter, twin, heap, drop>>

\* The world after a piece of handler code.
Becomes(w) ==
  /\ ~w.cut
  /\ Len(w.sc.tasks) <= MaxTasks
  /\ scene' = w.sc
  /\ grid' = w.grid
  /\ rng' = w.rng
  /\ waterFlows' = w.waterFlows
  /\ SceneFrame

\* GameScene.create: await resolveAndAnimate(), then setupBoardInput().
SceneCreate ==
  /\ Len(scene.tasks) = 1 /\ scene.tasks[1].at = "start"
  /\ Becomes(AfterResolveStart(ResolveStart([World EXCEPT !.sc.tasks = <<>>]), "create"))

PointerDown(p, cell) ==
  /\ scene.attached
  /\ p \notin scene.held
  /\ LET sc == [scene EXCEPT !.held = @ \cup {p}] IN
       IF ~canInteract(sc) \/ sc.pointerId # 0 \/ cell = NoCell
       THEN Becomes([World EXCEPT !.sc = sc])
       ELSE Becomes([World EXCEPT !.sc = [sc EXCEPT !.pointerId = p, !.downCell = cell,
                                                   !.dragging = FALSE, !.candidate = cell]])

\* far: the pointer is at least dragThresholdPx away from where it went down.
PointerMove(p, cell, far) ==
  /\ scene.attached
  /\ scene.pointerId = p
  /\ scene.downCell # NoCell
  /\ canInteract(scene)
  /\ LET sc1 == IF ~scene.dragging /\ far
                THEN [scene EXCEPT !.dragging = TRUE, !.ghost = TRUE]
                ELSE scene
         sc2 == IF sc1.dragging THEN [sc1 EXCEPT !.candidate = cell] ELSE sc1
     IN  Becomes([World EXCEPT !.sc = sc2])

PointerUp(p) ==
  /\ scene.attached
  /\ p \in scene.held
  /\ LET sc0 == [scene EXCEPT !.held = @ \ {p}] IN
       IF sc0.pointerId # p \/ sc0.downCell = NoCell
       THEN Becomes([World EXCEPT !.sc = sc0])
       ELSE LET start == sc0.downCell
                end == sc0.candidate
                wasDragging == sc0.dragging
                sc1 == [sc0 EXCEPT !.pointerId = 0, !.downCell = NoCell, !.dragging = FALSE]
                w == [World EXCEPT !.sc = sc1]
            IN  IF ~canInteract(sc1) THEN Becomes([w EXCEPT !.sc = cleanupDrag(@)])
                ELSE IF ~wasDragging THEN Becomes(TapFlow(w, start))
                ELSE IF end = NoCell \/ end = start
                THEN (IF sc1.ghost
                      THEN Becomes([w EXCEPT !.sc.tasks = Append(@, Task("snapBack", "gesture", start, end))])
                      ELSE Becomes([w EXCEPT !.sc = cleanupDrag(@)]))
                ELSE (IF sc1.ghost
                      THEN Becomes([w EXCEPT !.sc.tasks = Append(@, Task("dropTo", "gesture", start, end))])
                      ELSE Becomes(SwapFlow(w, start, end)))

\* The tween awaited by snapBack or dropTo completes.
TweenDone(k) ==
  /\ k \in 1 .. Len(scene.tasks)
  /\ scene.tasks[k].at \in {"snapBack", "dropTo"}
  /\ LET t == scene.tasks[k]
         w == [World EXCEPT !.sc.tasks = RemoveAt(@, k)]
     IN  IF t.at = "snapBack" THEN Becomes([w EXCEPT !.sc = cleanupDrag(@)])
         ELSE Becomes(SwapFlow(w, t.start, t.end))

\* The playSteps awaited by a resolveAndAnimate completes.
PlaybackDone(k) ==
  /\ k \in 1 .. Len(scene.tasks)
  /\ scene.tasks[k].at = "playSteps"
  /\ LET t == scene.tasks[k]
         w == ResolveFinish([World EXCEPT !.sc.tasks = RemoveAt(@, k)])
     IN  IF t.kind = "create" THEN Becomes([w EXCEPT !.sc.attached = TRUE])
         ELSE Becomes([w EXCEPT !.sc = finishResolving(@)])

SceneNext ==
  \/ SceneCreate
  \/ \E p \in Pointers : \E c \in Cells(grid) \cup {NoCell} : PointerDown(p, c)
  \/ \E p \in Pointers : \E c \in Cells(grid) \cup {NoCell} : \E far \in BOOLEAN : PointerMove(p, c, far)
  \/ \E p \in Pointers : PointerUp(p)
  \/ \E k \in 1 .. MaxTasks : TweenDone(k)
  \/ \E k \in 1 .. MaxTasks : PlaybackDone(k)

SceneSpec == SceneInit /\ [][SceneNext]_vars

\* C4 as claimed: no rotateCellCW, swapCells or resolveAll call reaches the
\* model between the start of a resolveAndAnimate and the end of the playback
\* of its step list, and at most one resolveAndAnimate is in progress.
\* (Refuted: a drag released while PLAYING locks only after its dropTo tween;
\* a tap made during that tween starts a playback, and the drag's swapCells
\* and resolveAll follow while that playback is running.)
C4_NoModelCallDuringPlayback ==
  /\ ~scene.overlap
  /\ Cardinality(Playing(scene)) <= 1

(***************************************************************************)
(* The sampler under decks with disabled, zero-weight and negative-weight  *)
(* pieces: construction, spawnNextPiece and the refill of resolveAll.      *)
(***************************************************************************)
\* A deck enabling the pieces of en, with the given weights of I2, L2, T3.
DeckOf(en, wI, wL, wT) ==
  [enabledPieces |-> [k \in IdSet |-> k \in en],
   weights |-> [k \in IdSet |-> CASE k = "I2" -> wI [] k = "L2" -> wL [] k = "T3" -> wT
                                   [] OTHER -> 0]]

DeckStages ==
  {MkStage(1, h, "ANY_EDGE", AllColumns, AllColumns, DeckOf(en, wI, wL, wT), fill, sd) :
     h \in {1, 2}, en \in SUBSET {"I2", "L2", "T3"},
     wI \in {0, 1}, wL \in {-1, 2}, wT \in {0, 3},
     fill \in {FillAll, FillRows(1), FillNone}, sd \in {1, 9}}

DeckInit ==
  \E st \in DeckStages :
    \E b \in {NewBoard(st)} :
      /\ stage = st
      /\ grid = b.grid
      /\ rng = b.rng
      /\ waterFlows = 0
      /\ pc = IF b.threw THEN "failed" ELSE "idle"
      /\ steps = <<>>
      /\ flows = 0
      /\ passes = 0
      /\ clearLog = <<>>
      /\ pre = NoPre
      /\ ret = NoRet
      /\ nOps = 0
      /\ iter = 0
      /\ twin = NoTwin
      /\ heap = NoHeap
      /\ drop = NoDrop
      /\ scene = NoScene

\* spawnNextPiece: the sampled tile is returned; an error of pickWeighted
\* leaves the RNG as it was.
\* A spawn that takes the drawn piece out of the deck it was given.
SpawnNextPieceFromDeck ==
  /\ CanCall
  /\ \E s \in {SampleTile(rng, stage.weights, stage.enabledPieces)} :
       /\ rng' = s.rng
       /\ stage' = IF s.threw THEN stage
                   ELSE [stage EXCEPT !.weights[s.tile.pieceId] = @ - 1]
       /\ Called("spawnNextPiece", <<>>,
                 [threw |-> s.threw, steps |-> <<>>, flowsGained |-> 0, moves |-> <<>>,
                  tile |-> s.tile])
  /\ pc' = "returned"
  /\ UNCHANGED <<twin, heap, drop, scene, grid, waterFlows, steps, flows, passes, clearLog, iter>>

SpawnNextPiece ==
  /\ CanCall
  /\ \E s \in {SampleTile(rng, stage.weights, stage.enabledPieces)} :
       /\ rng' = s.rng
       /\ Called("spawnNextPiece", <<>>,
                 [threw |-> s.threw, steps |-> <<>>, flowsGained |-> 0, moves |-> <<>>,
                  tile |-> s.tile])
  /\ pc' = "returned"
  /\ UNCHANGED <<stage, twin, heap, drop, scene, grid, waterFlows, steps, flows, passes, clearLog, iter>>

DeckNext ==
  \/ \E c \in Cells(grid) : RotateCellCW(c.x, c.y)
  \/ SpawnNextPiece
  \/ ResolveAllCall
  \/ ResolveClearPass
  \/ ResolveReturn
  \/ CallerContinues

DeckSpec == DeckInit /\ [][DeckNext]_vars

\* Some key is not disabled by the filter and has a positive weight.
HasSelectable(weights, enabled) ==
  \E k \in IdSet : enabled[k] /\ weights[k] > 0

\* The initial fill samples at least one tile, and the table it samples from.
FillNeedsSample(st) ==
  st.fill.present /\ clampInt(st.fill.rowsFromBottom, 0, st.height) > 0

FillWeights(st) ==
  IF st.fill.useInitialWeights THEN buildInitialWeights(st.fill.initialWeights) ELSE st.weights

\* The tiles on the grid, and the tiles the refills of the current call dropped in.
GridTiles(g) == {g[c.y][c.x] : c \in Cells(g)} \ {NullTile}

RefilledTiles(ss) ==
  UNION {{ss[i].moves[j].tile : j \in {m \in 1 .. Len(ss[i].moves) : ss[i].moves[m].from.y = -1}} :
           i \in StepsOfType(ss, "DROP")}

\* What spawnNextPiece and the refill of a clearing pass do with the deck.
SamplesFollowDeck ==
  /\ (pc = "returned" /\ ret.op = "spawnNextPiece") =>
       /\ ret.out.threw <=> ~HasSelectable(stage.weights, stage.enabledPieces)
       /\ ~ret.out.threw => /\ stage.enabledPieces[ret.out.tile.pieceId]
                            /\ stage.weights[ret.out.tile.pieceId] > 0
  /\ (ret.op = "resolveAll" /\ passes > 0) =>
       (ret.out.threw <=> ~HasSelectable(stage.weights, stage.enabledPieces))
  /\ \A t \in RefilledTiles(steps) :
       stage.enabledPieces[t.pieceId] /\ stage.weights[t.pieceId] > 0

\* C11 as claimed: pickWeighted fails exactly when no key is selectable and
\* otherwise returns a selectable key; a deck with no selectable piece makes
\* construction fail when the initial fill needs a sample and otherwise makes
\* the first spawn or refill fail; no tile of a disabled or zero-weight piece
\* is on the grid.  (Refuted: an initial fill with useInitialWeights samples
\* from the initial weights, so construction succeeds on a deck whose own
\* weights select nothing, and places pieces whose deck weight is 0.)
C11_NoSelectableFailsConstruction ==
  /\ SamplesFollowDeck
  /\ (FillNeedsSample(stage) /\ ~HasSelectable(stage.weights, stage.enabledPieces))
       => pc = "failed"
  /\ \A t \in GridTiles(grid) :
       stage.enabledPieces[t.pieceId] /\ stage.weights[t.pieceId] > 0

\* C11, amended: each sample fails exactly when the table it draws from has
\* no enabled key of positive weight, and otherwise yields such a key.  The
\* initial fill draws from the initial weights when useInitialWeights is set
\* and from the deck weights otherwise, so construction fails exactly when the
\* fill needs a sample and that table selects nothing; spawnNextPiece and
\* every refill draw from the deck weights.  Every tile on the grid is of an
\* enabled piece with positive weight in the table it was drawn from.
C11_SamplesFollowTheirTable ==
  /\ SamplesFollowDeck
  /\ (pc = "failed") <=>
       (FillNeedsSample(stage) /\ ~HasSelectable(FillWeights(stage), stage.enabledPieces))
  /\ \A t \in GridTiles(grid) :
       /\ stage.enabledPieces[t.pieceId]
       /\ stage.weights[t.pieceId] > 0 \/ (FillNeedsSample(stage) /\ FillWeights(stage)[t.pieceId] > 0)

\* A board built by an initial fill on a deck whose own weights select
\* nothing: the refill of its first clearing pass has failed.
C11_Witness ==
  /\ pc = "returned"
  /\ ret.op = "resolveAll"
  /\ ret.out.threw
  /\ FillNeedsSample(stage)
  /\ GridTiles(pre.grid) # {}

(***************************************************************************)
(* Properties of the coordinate-taking operations, over the calls of Spec. *)
(***************************************************************************)
OutOfRange(g, c) == ~(0 <= c.x /\ c.x < Width(g) /\ 0 <= c.y /\ c.y < Height(g))

\* The operation op has just returned to its caller.
Returned(op) == pc = "returned" /\ ret.op = op

\* C12: for a coordinate outside the board getCell returns the absent value;
\* rotateCellCW, swapCells with either coordinate outside, shiftAlongPath with
\* any path cell outside and triggerArrowAt leave the whole grid as it was
\* and raise no error, the last two returning an empty list.
C12_OutOfRangeIsNoOp ==
  /\ \A c \in ProbeCells(grid) : OutOfRange(grid, c) => getCell(grid, c.x, c.y) = NullTile
  /\ (Returned("rotateCellCW") /\ OutOfRange(pre.grid, Pos(ret.args[1], ret.args[2])))
       => grid = pre.grid /\ ~ret.out.threw
  /\ (Returned("swapCells")
      /\ (OutOfRange(pre.grid, ret.args[1]) \/ OutOfRange(pre.grid, ret.args[2])))
       => grid = pre.grid /\ ~ret.out.threw
  /\ (Returned("shiftAlongPath")
      /\ \E i \in 1 .. Len(ret.args) : OutOfRange(pre.grid, ret.args[i]))
       => grid = pre.grid /\ ~ret.out.threw /\ ret.out.moves = <<>>
  /\ (Returned("triggerArrowAt") /\ OutOfRange(pre.grid, ret.args[1]))
       => grid = pre.grid /\ ~ret.out.threw /\ ret.out.steps = <<>>

\* swapCells has returned from a call whose first cell holds a tile and whose
\* second coordinate is outside the board.
C12_Witness ==
  /\ Returned("swapCells")
  /\ ~OutOfRange(pre.grid, ret.args[1])
  /\ pre.grid[ret.args[1].y][ret.args[1].x] # NullTile
  /\ OutOfRange(pre.grid, ret.args[2])

\* The occupied cells met from (x, y) on in the direction off, up to the
\* first empty cell or the edge of the board.
RECURSIVE ContiguousRun(_, _, _, _)
ContiguousRun(g, x, y, off) ==
  IF ~inBounds(g, x, y) THEN <<>>
  ELSE IF g[y][x] = NullTile THEN <<>>
  ELSE <<Pos(x, y)>> \o ContiguousRun(g, x + off.dx, y + off.dy, off)

\* The single open direction of the arrow tile t.
ArrowDir(t) == CHOOSE d \in SeqSet(ALL_DIRS) : hasBit(pieceMask(t.pieceId, t.rot), d)

\* The cells C13 says an arrow at pos clears on the grid g.
ArrowTarget(g, pos) ==
  <<pos>> \o ContiguousRun(g, pos.x + DIR_OFFSET(ArrowDir(g[pos.y][pos.x])).dx,
                              pos.y + DIR_OFFSET(ArrowDir(g[pos.y][pos.x])).dy,
                              DIR_OFFSET(ArrowDir(g[pos.y][pos.x])))

IsArrowAt(g, pos) ==
  inBounds(g, pos.x, pos.y) /\ g[pos.y][pos.x] # NullTile /\ g[pos.y][pos.x].kind = "ARROW"

\* C13 as claimed: triggerArrowAt on an ARROW tile clears the tile and the
\* contiguous run of occupied cells along its open direction, stopping at the
\* first empty cell or the edge, then applies gravity; it returns one CLEAR
\* with exactly those cells, followed by a DROP only if gravity moved a tile.
\* (Refuted: the run does not stop at an empty cell; occupied cells beyond it
\* are cleared as well.)
C13_ArrowClearsContiguousRun ==
  (Returned("triggerArrowAt") /\ IsArrowAt(pre.grid, ret.args[1])) =>
    /\ Len(ret.out.steps) \in {1, 2}
    /\ ret.out.steps[1] = [type |-> "CLEAR", cells |-> ArrowTarget(pre.grid, ret.args[1])]
    /\ grid = applyGravity(clearCells(pre.grid, ArrowTarget(pre.grid, ret.args[1]))).grid
    /\ Len(ret.out.steps) = 2 =>
         /\ ret.out.steps[2].type = "DROP"
         /\ ret.out.steps[2].moves # <<>>
    /\ Len(ret.out.steps) = 1 =>
         applyGravity(clearCells(pre.grid, ArrowTarget(pre.grid, ret.args[1]))).moves = <<>>

(***************************************************************************)
(* boardModel.ts, the left-inlet / right-drain BoardModel (the first class *)
(* of the file): its water logic and its resolveAll.  The grid, the RNG,   *)
(* gravity, refill and rotateCellCW are the same code as above.            *)
(***************************************************************************)
MkStageLR(w, h, mode, left, right, deck, fill, seed) ==
  [width |-> w, height |-> h, mode |-> mode, left |-> left, right |-> right,
   enabledPieces |-> deck.enabledPieces, weights |-> deck.weights, seed |-> seed,
   fill |-> fill, goal |-> 3]

isLeftRowEnabled(st, y) ==
  IF st.mode = "ANY_EDGE" THEN TRUE
  ELSE IF st.left.all THEN TRUE
  ELSE y \in st.left.cols

isRightRowEnabled(st, y) ==
  IF st.mode = "ANY_EDGE" THEN TRUE
  ELSE IF st.right.all THEN TRUE
  ELSE y \in st.right.cols

\* collectNetworkFromStart(startY): the search starts at the left edge cell
\* of row startY, which must be open to the left.
collectNetworkFromLeft(g, startY) ==
  IF g[startY][0] = NullTile THEN <<>>
  ELSE IF ~hasBit(maskAt(g, 0, startY), DirL) THEN <<>>
  ELSE CollectLoop(g, <<Pos(0, startY)>>, <<Pos(0, startY)>>)

networkReachesRight(g, network) ==
  \E i \in 1 .. Len(network) :
    /\ network[i].x = Width(g) - 1
    /\ g[network[i].y][network[i].x] # NullTile
    /\ hasBit(maskAt(g, network[i].x, network[i].y), DirR)

\* The loop body of checkNetworkValid for one cell and one direction.
ConnectorOkLR(st, g, network, p, dir) ==
  LET off == DIR_OFFSET(dir)
      nx == p.x + off.dx
      ny == p.y + off.dy
  IN  IF ~hasBit(maskAt(g, p.x, p.y), dir) THEN TRUE
      ELSE IF ~inBounds(g, nx, ny)
      THEN LET okLeft == p.x = 0 /\ dir = DirL /\ isLeftRowEnabled(st, p.y)
               okRight == p.x = Width(g) - 1 /\ dir = DirR /\ isRightRowEnabled(st, p.y)
           IN  okLeft \/ okRight
      ELSE IF g[ny][nx] = NullTile THEN FALSE
      ELSE IF ~hasBit(maskAt(g, nx, ny), OPPOSITE(dir)) THEN FALSE
      ELSE InSeq(network, Pos(nx, ny))

checkNetworkValidLR(st, g, network) ==
  \A i \in 1 .. Len(network) :
    /\ g[network[i].y][network[i].x] # NullTile
    /\ \A j \in 1 .. Len(ALL_DIRS) : ConnectorOkLR(st, g, network, network[i], ALL_DIRS[j])

NetworkWinsLR(st, g, network) ==
  /\ Len(network) # 0
  /\ networkReachesRight(g, network)
  /\ checkNetworkValidLR(st, g, network)

InletWinsLR(st, g, startY) ==
  /\ isLeftRowEnabled(st, startY)
  /\ NetworkWinsLR(st, g, collectNetworkFromLeft(g, startY))

\* The for-loop over startY: the first row at which the scan stops, or -1.
RECURSIVE ScanInletsLR(_, _, _)
ScanInletsLR(st, g, startY) ==
  IF startY >= Height(g) THEN -1
  ELSE IF InletWinsLR(st, g, startY) THEN startY
  ELSE ScanInletsLR(st, g, startY + 1)

\* cells.map(c => ({ ...c, dist: 0 }))
WaterCellsLR(network) ==
  [i \in 1 .. Len(network) |-> [x |-> network[i].x, y |-> network[i].y, dist |-> 0]]

ClearDroppedLR(network, gv) ==
  [grid |-> gv.grid,
   steps |-> << [type |-> "WATER", cells |-> WaterCellsLR(network)],
                [type |-> "CLEAR", cells |-> network],
                [type |-> "FLOW_COUNT", delta |-> 1] >>
             \o (IF Len(gv.moves) > 0
                 THEN <<[type |-> "DROP", moves |-> gv.moves]>>
                 ELSE <<>>)]

ClearAndDropLR(g, network) ==
  ClearDroppedLR(network, applyGravity(clearCells(g, network)))

PassOfLR(st, g, rng0, network) ==
  PassCleared(st, rng0, network, ClearAndDropLR(g, network))

\* The rest of a pass whose scan stopped at row startY.
ResolvePassLR(st, g, rng0, startY) == PassOfLR(st, g, rng0, collectNetworkFromLeft(g, startY))

LRStages ==
  {MkStageLR(3, 1, "MASKED", Columns({0}), Columns({0}), DeckAll, FillRows(1), sd) : sd \in {73874}}
  \cup {MkStageLR(3, 1, "ANY_EDGE", AllColumns, AllColumns, DeckPipes, FillAll, sd) : sd \in {28, 50}}
  \cup {MkStageLR(2, 2, "ANY_EDGE", AllColumns, AllColumns, DeckPipes, FillAll, sd) : sd \in {3, 9, 24}}
  \cup {MkStageLR(2, 2, "MASKED", Columns({1}), Columns({0}), DeckPipes, FillAll, sd) : sd \in {9, 13}}

LRInit ==
  \E st \in LRStages :
    \E b \in {NewBoard(st)} :
      /\ stage = st
      /\ grid = b.grid
      /\ rng = b.rng
      /\ waterFlows = 0
      /\ pc = IF b.threw THEN "failed" ELSE "idle"
      /\ steps = <<>>
      /\ flows = 0
      /\ passes = 0
      /\ clearLog = <<>>
      /\ pre = NoPre
      /\ ret = NoRet
      /\ nOps = 0
      /\ iter = 0
      /\ twin = NoTwin
      /\ heap = NoHeap
      /\ drop = NoDrop
      /\ scene = NoScene

\* A pass of the while loop whose scan over the left-edge rows stops at a row.
LRClearPass ==
  /\ pc = "resolving"
  /\ passes < MaxPasses
  /\ \E startY \in {ScanInletsLR(stage, grid, 0)} :
       /\ startY # -1
       /\ \E p \in {ResolvePassLR(stage, grid, rng, startY)} :
            /\ grid' = p.grid
            /\ rng' = p.rng
            /\ waterFlows' = waterFlows + 1
            /\ flows' = flows + 1
            /\ passes' = passes + 1
            /\ clearLog' = Append(clearLog, [grid |-> grid, network |-> p.network, startX |-> startY])
            /\ steps' = steps \o p.steps
            /\ pc' = IF p.threw THEN "returned" ELSE "resolving"
            /\ ret' = IF p.threw THEN [ret EXCEPT !.out.threw = TRUE] ELSE ret
  /\ iter' = 1 - iter
  /\ UNCHANGED <<stage, twin, heap, drop, scene, pre, nOps>>

\* The pass in which no row wins: resolveAll returns {steps, flowsGained}.
LRReturn ==
  /\ pc = "resolving"
  /\ ScanInletsLR(stage, grid, 0) = -1
  /\ pc' = "returned"
  /\ ret' = [ret EXCEPT !.out.steps = steps, !.out.flowsGained = flows]
  /\ iter' = 1 - iter
  /\ UNCHANGED <<stage, twin, heap, drop, scene, grid, rng, waterFlows, steps, flows, passes, clearLog, pre, nOps>>

LRNext ==
  \/ \E c \in Cells(grid) : RotateCellCW(c.x, c.y)
  \/ ResolveAllCall
  \/ LRClearPass
  \/ LRReturn
  \/ CallerContinues

LRSpec == LRInit /\ [][LRNext]_vars

\* Cell b is the neighbour of cell a in a direction that a has open and whose
\* opposite b has open.
Linked(g, a, b) ==
  \E d \in SeqSet(ALL_DIRS) : b = Neighbour(a, d) /\ OpenAt(g, a, d) /\ OpenAt(g, b, OPPOSITE(d))

\* The breadth-first layer of cell c among the cells S: frontier is layer k,
\* seen the layers before it; -1 when c is in no layer.
RECURSIVE LayerOf(_, _, _, _, _, _)
LayerOf(g, S, seen, frontier, k, c) ==
  IF c \in frontier THEN k
  ELSE IF frontier = {} THEN -1
  ELSE LayerOf(g, S, seen \cup frontier,
               {n \in S \ (seen \cup frontier) : \E f \in frontier : Linked(g, f, n)},
               k + 1, c)

\* C14 as claimed: in every WATER step of resolveAll the inlet cell of the
\* cleared network has dist 0 and every other cell's dist is its breadth-first
\* layer, the length of a shortest path from the inlet cell through
\* mask-matched adjacent cells of the network; a network of more than one
\* cell therefore carries more than one dist value.  (Refuted by the
\* left-inlet resolveAll, which writes dist 0 into every WATER cell.)
C14_WaterDistIsLayer ==
  \A i \in 1 .. Len(clearLog) :
    LET k == NthOfType(steps, "WATER", i, 1) IN
      /\ k # 0
      /\ \A j \in 1 .. Len(steps[k].cells) :
           steps[k].cells[j].dist =
             LayerOf(clearLog[i].grid, SeqSet(clearLog[i].network), {},
                     {clearLog[i].network[1]}, 0,
                     Pos(steps[k].cells[j].x, steps[k].cells[j].y))
      /\ Len(steps[k].cells) > 1 =>
           Cardinality({steps[k].cells[j].dist : j \in 1 .. Len(steps[k].cells)}) > 1

(***************************************************************************)
(* The two network searches as functions of the grid and the inlet index,  *)
(* applied to every small grid of pipes and empty cells.                   *)
(***************************************************************************)
\* The tiles a probe grid is made of: every mask of the three pipe pieces.
ProbeTiles ==
  {[kind |-> "PIPE", pieceId |-> "I2", rot |-> r] : r \in {0, 1}}
  \cup {[kind |-> "PIPE", pieceId |-> k, rot |-> r] : k \in {"L2", "T3"}, r \in 0 .. 3}
  \cup {NullTile}

ProbeGrids(w, h) == [0 .. h - 1 -> [0 .. w - 1 -> ProbeTiles]]

NetworkInit ==
  \E d \in {<<2, 2>>, <<3, 1>>, <<1, 3>>} :
    /\ stage = MkStage(d[1], d[2], "ANY_EDGE", AllColumns, AllColumns, DeckPipes, FillAll, 1)
    /\ grid \in ProbeGrids(d[1], d[2])
    /\ rng = XorShiftNew(1)
    /\ waterFlows = 0
    /\ pc = "idle"
    /\ steps = <<>>
    /\ flows = 0
    /\ passes = 0
    /\ clearLog = <<>>
    /\ pre = NoPre
    /\ ret = NoRet
    /\ nOps = 0
    /\ iter = 0
    /\ twin = NoTwin
    /\ heap = NoHeap
    /\ drop = NoDrop
    /\ scene = NoScene

\* The search op has returned the network net for the inlet index i.
Searched(op, i, net) ==
  /\ pc = "idle"
  /\ pc' = "returned"
  /\ ret' = [op |-> op, args |-> <<i>>,
             out |-> [threw |-> FALSE, steps |-> <<>>, flowsGained |-> 0, moves |-> <<>>,
                      network |-> net]]
  /\ UNCHANGED <<stage, twin, heap, drop, scene, grid, rng, waterFlows, steps, flows, passes, clearLog,
                 pre, nOps, iter>>

CollectNetworkFromStart(startX) ==
  Searched("collectNetworkFromStart", startX, collectNetworkFromStart(grid, startX))

CollectNetworkFromLeft(startY) ==
  Searched("collectNetworkFromLeft", startY, collectNetworkFromLeft(grid, startY))

\* The reason checkNetworkValid gives for one cell and one direction, "ok"
\* when the loop goes on.
ConnectorReason(st, g, network, p, dir) ==
  LET off == DIR_OFFSET(dir)
      nx == p.x + off.dx
      ny == p.y + off.dy
  IN  IF ~hasBit(maskAt(g, p.x, p.y), dir) THEN "ok"
      ELSE IF ~inBounds(g, nx, ny)
      THEN (IF \/ p.y = 0 /\ dir = DirU /\ isTopColumnEnabled(st, p.x)
               \/ p.y = Height(g) - 1 /\ dir = DirD /\ isBottomColumnEnabled(st, p.x)
            THEN "ok" ELSE "OUTSIDE")
      ELSE IF g[ny][nx] = NullTile THEN "EMPTY"
      ELSE IF ~hasBit(maskAt(g, nx, ny), OPPOSITE(dir)) THEN "CLOSED"
      ELSE IF ~InSeq(network, Pos(nx, ny)) THEN "NON-NETWORK"
      ELSE "ok"

\* The loops of checkNetworkValid from cell i and direction j on: the reason
\* of the first {ok: false} returned, "ok" when the loops run to their end.
RECURSIVE NetworkReason(_, _, _, _, _)
NetworkReason(st, g, network, i, j) ==
  IF i > Len(network) THEN "ok"
  ELSE IF g[network[i].y][network[i].x] = NullTile THEN "NULL"
  ELSE IF j > Len(ALL_DIRS) THEN NetworkReason(st, g, network, i + 1, 1)
  ELSE IF ConnectorReason(st, g, network, network[i], ALL_DIRS[j]) # "ok"
       THEN ConnectorReason(st, g, network, network[i], ALL_DIRS[j])
       ELSE NetworkReason(st, g, network, i, j + 1)

\* The network of inlet startX has been computed and validated: [network,
\* ok, reason].
Validated(startX, network) ==
  /\ pc = "idle"
  /\ pc' = "returned"
  /\ ret' = [op |-> "checkNetworkValid", args |-> <<startX>>,
             out |-> [threw |-> FALSE, steps |-> <<>>, flowsGained |-> 0, moves |-> <<>>,
                      network |-> network,
                      ok |-> checkNetworkValid(stage, grid, network),
                      reason |-> NetworkReason(stage, grid, network, 1, 1)]]
  /\ UNCHANGED <<stage, twin, heap, drop, scene, grid, rng, waterFlows, steps, flows, passes, clearLog,
                 pre, nOps, iter>>

CheckNetworkValid(startX) == Validated(startX, collectNetworkFromStart(grid, startX))

NetworkNext ==
  \/ \E x \in 0 .. Width(grid) - 1 : CollectNetworkFromStart(x)
  \/ \E y \in 0 .. Height(grid) - 1 : CollectNetworkFromLeft(y)
  \/ \E x \in 0 .. Width(grid) - 1 : CheckNetworkValid(x)
  \/ CallerContinues

NetworkSpec == NetworkInit /\ [][NetworkNext]_vars

\* The cells reachable from the cells S by steps from a cell to its in-bounds
\* occupied neighbour in a direction the cell has open and whose opposite the
\* neighbour has open.
RECURSIVE ReachableFrom(_, _)
ReachableFrom(g, S) ==
  LET T == S \cup {n \in Cells(g) : g[n.y][n.x] # NullTile /\ \E a \in S : Linked(g, a, n)}
  IN  IF T = S THEN S ELSE ReachableFrom(g, T)

\* The network C15 describes for the inlet edge cell c with exterior side d.
InletNetwork(g, c, d) ==
  IF g[c.y][c.x] = NullTile \/ ~OpenAt(g, c, d) THEN {} ELSE ReachableFrom(g, {c})

\* C15: for every grid and inlet index the computed network is empty when the
\* inlet edge cell is empty or not open toward the exterior on the inlet side,
\* and otherwise is exactly the set of cells reachable from the inlet cell by
\* steps to an in-bounds occupied neighbour in a direction the cell has open
\* and whose opposite the neighbour has open; this for the top-inlet search
\* and for the left-inlet search, each cell listed once.
C15_NetworkIsReachableSet ==
  /\ Returned("collectNetworkFromStart") =>
       /\ SeqSet(ret.out.network) = InletNetwork(grid, Pos(ret.args[1], 0), DirU)
       /\ Len(ret.out.network) = Cardinality(SeqSet(ret.out.network))
  /\ Returned("collectNetworkFromLeft") =>
       /\ SeqSet(ret.out.network) = InletNetwork(grid, Pos(0, ret.args[1]), DirL)
       /\ Len(ret.out.network) = Cardinality(SeqSet(ret.out.network))

\* The top-inlet search has returned the four cells of a closed ring, each once.
C15_Witness ==
  /\ Returned("collectNetworkFromStart")
  /\ Len(ret.out.network) = 4
  /\ \A c \in Cells(grid) : Cardinality({n \in Cells(grid) : Linked(grid, c, n)}) >= 2

(***************************************************************************)
(* Inlet and drain of the networks resolveAll clears.                      *)
(***************************************************************************)
\* The configuration enables the faucet f ("top" or "bottom") at column x.
FaucetEnabled(st, f, x) ==
  \/ st.mode = "ANY_EDGE"
  \/ st[f].all
  \/ x \in st[f].cols

\* The cells of S on the bottom row of g that open Down.
DrainOpenings(g, S) == {c \in S : c.y = Height(g) - 1 /\ OpenAt(g, c, DirD)}

\* The cells of S on the top row of g that open Up.
InletOpenings(g, S) == {c \in S : c.y = 0 /\ OpenAt(g, c, DirU)}

\* C16: every network cleared by resolveAll contains a cell on the inlet edge
\* open toward the exterior at an enabled inlet index and a cell on the drain
\* edge open toward the exterior at an enabled drain index; a network whose
\* only drain-side exterior openings are at disabled drain indices is never
\* cleared.
C16_ClearedNetworkJoinsEnabledInletAndDrain ==
  \A i \in 1 .. Len(clearLog) :
    LET g == clearLog[i].grid
        S == SeqSet(clearLog[i].network)
    IN  /\ \E c \in InletOpenings(g, S) : FaucetEnabled(stage, "top", c.x)
        /\ \E c \in DrainOpenings(g, S) : FaucetEnabled(stage, "bottom", c.x)
        /\ ~(/\ DrainOpenings(g, S) # {}
             /\ \A c \in DrainOpenings(g, S) : ~FaucetEnabled(stage, "bottom", c.x))

\* resolveAll has cleared a network on a board whose drain is disabled at some
\* column and whose inlet is disabled at some column.
C16_Witness ==
  /\ stage.mode = "MASKED"
  /\ \E x \in 0 .. stage.width - 1 : ~FaucetEnabled(stage, "bottom", x)
  /\ \E x \in 0 .. stage.width - 1 : ~FaucetEnabled(stage, "top", x)
  /\ Len(clearLog) > 0
  /\ Len(clearLog[1].network) > 1

(***************************************************************************)
(* The three-cell row between a left inlet and a right drain.              *)
(***************************************************************************)
\* The grid g is 3 wide and 1 high, every cell occupied, with (0,0) open
\* Right, (1,0) open Left and Right, and (2,0) open Left.
ThreeCellRow(g) ==
  /\ Width(g) = 3
  /\ Height(g) = 1
  /\ \A c \in Cells(g) : g[c.y][c.x] # NullTile
  /\ OpenAt(g, Pos(0, 0), DirR)
  /\ OpenAt(g, Pos(1, 0), DirL)
  /\ OpenAt(g, Pos(1, 0), DirR)
  /\ OpenAt(g, Pos(2, 0), DirL)

\* The step list ss is one WATER step over the three cells at distances 0, 1
\* and 2, one CLEAR step of three cells, one FLOW_COUNT step of delta 1, and
\* after them only DROP steps.
ThreeCellRowSteps(ss) ==
  /\ Len(ss) >= 3
  /\ ss[1].type = "WATER"
  /\ Len(ss[1].cells) = 3
  /\ {ss[1].cells[j] : j \in 1 .. 3} = {[x |-> d, y |-> 0, dist |-> d] : d \in 0 .. 2}
  /\ ss[2].type = "CLEAR"
  /\ Len(ss[2].cells) = 3
  /\ ss[3] = [type |-> "FLOW_COUNT", delta |-> 1]
  /\ \A k \in 4 .. Len(ss) : ss[k].type = "DROP"

\* C17: on a board 3 wide and 1 high with the inlet enabled on the left edge
\* of row 0 and the drain enabled on the right edge of row 0, where (0,0)
\* opens Right, (1,0) opens Left and Right and (2,0) opens Left, resolveAll
\* emits exactly one WATER step with 3 cells at distances 0, 1, 2, one CLEAR
\* step with 3 cells, one FLOW_COUNT step with delta +1, then DROP steps, and
\* returns flowsGained = 1.
C17_ThreeCellRowClearsOnce ==
  ( /\ Returned("resolveAll")
    /\ isLeftRowEnabled(stage, 0)
    /\ isRightRowEnabled(stage, 0)
    /\ ThreeCellRow(pre.grid) )
  => /\ ThreeCellRowSteps(ret.out.steps)
     /\ ret.out.flowsGained = 1

(***************************************************************************)
(* The editing operations swapCells and shiftAlongPath on every row and    *)
(* column of three cells holding three different pieces or nothing, with   *)
(* every short path.                                                       *)
(***************************************************************************)
\* The longest path a caller passes.
MaxPath == 3

\* Three different tiles and the empty cell.
EditTiles ==
  {[kind |-> "PIPE", pieceId |-> "I2", rot |-> 0],
   [kind |-> "PIPE", pieceId |-> "L2", rot |-> 1],
   [kind |-> "PIPE", pieceId |-> "T3", rot |-> 2],
   NullTile}

EditGrids(w, h) == [0 .. h - 1 -> [0 .. w - 1 -> EditTiles]]

\* The cells of g and one coordinate outside it.
EditCells(g) == Cells(g) \cup {Pos(-1, 0)}

\* Every path of up to MaxPath coordinates.
EditPaths(g) == UNION {[1 .. n -> EditCells(g)] : n \in 0 .. MaxPath}

EditInit ==
  \E d \in {<<3, 1>>, <<1, 3>>} :
  /\ stage = MkStage(d[1], d[2], "ANY_EDGE", AllColumns, AllColumns, DeckPipes, FillAll, 1)
  /\ grid \in EditGrids(d[1], d[2])
  /\ rng = XorShiftNew(1)
  /\ waterFlows = 0
  /\ pc = "idle"
  /\ steps = <<>>
  /\ flows = 0
  /\ passes = 0
  /\ clearLog = <<>>
  /\ pre = NoPre
  /\ ret = NoRet
  /\ nOps = 0
  /\ iter = 0
  /\ twin = NoTwin
  /\ heap = NoHeap
  /\ drop = NoDrop
  /\ scene = NoScene

\* The caller of swapCells(a, b) calls it again with the same coordinates.
SwapCellsAgain ==
  /\ pc = "returned"
  /\ ret.op = "swapCells"
  /\ nOps < MaxOps
  /\ grid' = swapCells(grid, ret.args[1], ret.args[2])
  /\ ret' = [ret EXCEPT !.op = "swapCellsTwice"]
  /\ nOps' = nOps + 1
  /\ UNCHANGED <<stage, twin, heap, drop, scene, rng, waterFlows, pc, steps, flows, passes, clearLog, pre, iter>>

EditNext ==
  \/ \E a \in EditCells(grid), b \in EditCells(grid) : SwapCells(a, b)
  \/ SwapCellsAgain
  \/ \E path \in EditPaths(grid) : ShiftAlongPath(path)
  \/ CallerContinues

EditSpec == EditInit /\ [][EditNext]_vars

\* The path p of g has at least 2 cells, all different, in bounds, occupied.
ShiftablePath(g, p) ==
  /\ Len(p) >= 2
  /\ \A i \in 1 .. Len(p), j \in 1 .. Len(p) : i # j => p[i] # p[j]
  /\ \A i \in 1 .. Len(p) : p[i] \in Cells(g) /\ g[p[i].y][p[i].x] # NullTile

\* The path p of g is too short or has a cell out of range or empty.
UnshiftablePath(g, p) ==
  \/ Len(p) < 2
  \/ \E i \in 1 .. Len(p) : p[i] \notin Cells(g) \/ g[p[i].y][p[i].x] = NullTile

\* C18: for a path p[0..n-1] of n >= 2 distinct in-bounds occupied cells,
\* shiftAlongPath moves the tile that was at p[0] to p[n-1] and the tile that
\* was at p[i+1] to p[i] for every i < n-1, leaves the cells off the path
\* unchanged, and returns one move record per path cell with
\* from = p[(i+1) mod n], to = p[i] and a copy of the moved tile; if the path
\* has fewer than 2 cells, or a path cell is out of range or empty, it returns
\* an empty list and changes nothing.
C18_ShiftRotatesAlongPath ==
  Returned("shiftAlongPath") =>
    LET p == ret.args
        n == Len(p)
        g0 == pre.grid
    IN  /\ ShiftablePath(g0, p) =>
             /\ grid[p[n].y][p[n].x] = g0[p[1].y][p[1].x]
             /\ \A i \in 1 .. n - 1 : grid[p[i].y][p[i].x] = g0[p[i + 1].y][p[i + 1].x]
             /\ \A c \in Cells(g0) \ SeqSet(p) : grid[c.y][c.x] = g0[c.y][c.x]
             /\ Len(ret.out.moves) = n
             /\ \A i \in 1 .. n :
                  ret.out.moves[i] =
                    [from |-> p[(i % n) + 1], to |-> p[i],
                     tile |-> g0[p[(i % n) + 1].y][p[(i % n) + 1].x]]
        /\ UnshiftablePath(g0, p) => ret.out.moves = <<>> /\ grid = g0

\* shiftAlongPath has returned from a path of three different occupied cells
\* holding three different tiles.
C18_Witness ==
  /\ Returned("shiftAlongPath")
  /\ Len(ret.args) = 3
  /\ ShiftablePath(pre.grid, ret.args)
  /\ Cardinality({pre.grid[ret.args[i].y][ret.args[i].x] : i \in 1 .. 3}) = 3
  /\ Len(ret.out.moves) = 3

\* C19: for all coordinates a and b and every grid, swapCells(a, b) called
\* twice in a row restores the original contents of a, of b and of the whole
\* grid.
C19_SwapTwiceRestores ==
  Returned("swapCellsTwice") => grid = pre.grid

\* swapCells has been called twice on two cells of different contents.
C19_Witness ==
  /\ Returned("swapCellsTwice")
  /\ ret.args[1] \in Cells(grid)
  /\ ret.args[2] \in Cells(grid)
  /\ grid[ret.args[1].y][ret.args[1].x] # grid[ret.args[2].y][ret.args[2].x]
  /\ grid = pre.grid

\* C20: for in-bounds a # b, swapCells(a, b) exchanges the contents of a and
\* b whether or not they are empty or adjacent, and leaves every other cell,
\* the flow counter and the RNG state unchanged; for a = b it changes nothing.
C20_SwapExchangesAndFrames ==
  Returned("swapCells") =>
    LET a == ret.args[1]
        b == ret.args[2]
        g0 == pre.grid
    IN  /\ (a \in Cells(g0) /\ b \in Cells(g0) /\ a # b) =>
             /\ grid[a.y][a.x] = g0[b.y][b.x]
             /\ grid[b.y][b.x] = g0[a.y][a.x]
             /\ \A c \in Cells(g0) \ {a, b} : grid[c.y][c.x] = g0[c.y][c.x]
             /\ waterFlows = pre.waterFlows
             /\ rng = pre.rng
        /\ a = b => grid = g0 /\ waterFlows = pre.waterFlows /\ rng = pre.rng

\* swapCells has exchanged an occupied cell with an empty cell two steps away
\* on a board whose flow counter is above zero.
C20_Witness ==
  /\ Returned("swapCells")
  /\ ret.args[1] \in Cells(grid)
  /\ ret.args[2] \in Cells(grid)
  /\ (ret.args[1].x - ret.args[2].x) * (ret.args[1].x - ret.args[2].x)
       + (ret.args[1].y - ret.args[2].y) * (ret.args[1].y - ret.args[2].y) > 1
  /\ pre.grid[ret.args[1].y][ret.args[1].x] # NullTile
  /\ pre.grid[ret.args[2].y][ret.args[2].x] = NullTile
  /\ grid[ret.args[1].y][ret.args[1].x] = NullTile
  /\ waterFlows > 0

(***************************************************************************)
(* rotateCellCW called again and again on one cell, for every piece and    *)
(* every rotation.                                                         *)
(***************************************************************************)
\* Every tile: each piece at each rotation, and the empty cell.
TurnTiles ==
  {[kind |-> PIECE_DEFS(PieceIds[i]).kind, pieceId |-> PieceIds[i], rot |-> r] :
     i \in 1 .. Len(PieceIds), r \in 0 .. 3}
  \cup {NullTile}

TurnInit ==
  /\ stage = MkStage(2, 1, "ANY_EDGE", AllColumns, AllColumns, DeckAll, FillAll, 1)
  /\ grid \in [0 .. 0 -> [0 .. 1 -> TurnTiles]]
  /\ rng = XorShiftNew(1)
  /\ waterFlows = 0
  /\ pc = "idle"
  /\ steps = <<>>
  /\ flows = 0
  /\ passes = 0
  /\ clearLog = <<>>
  /\ pre = NoPre
  /\ ret = NoRet
  /\ nOps = 0
  /\ iter = 0
  /\ twin = NoTwin
  /\ heap = NoHeap
  /\ drop = NoDrop
  /\ scene = NoScene

\* The name under which the call after the call op is recorded.
NextTurn(op) ==
  CASE op = "rotateCellCW" -> "rotateCellCW2"
    [] op = "rotateCellCW2" -> "rotateCellCW3"
    [] op = "rotateCellCW3" -> "rotateCellCW4"

\* The caller of rotateCellCW(x, y) calls it again on the same cell.
RotateCellCWAgain ==
  /\ pc = "returned"
  /\ ret.op \in {"rotateCellCW", "rotateCellCW2", "rotateCellCW3"}
  /\ grid' = rotateCellCW(grid, ret.args[1], ret.args[2])
  /\ ret' = [ret EXCEPT !.op = NextTurn(@)]
  /\ UNCHANGED <<stage, twin, heap, drop, scene, rng, waterFlows, pc, steps, flows, passes, clearLog, pre,
                 nOps, iter>>

TurnNext ==
  \/ \E c \in ProbeCells(grid) : RotateCellCW(c.x, c.y)
  \/ RotateCellCWAgain
  \/ CallerContinues

TurnSpec == TurnInit /\ [][TurnNext]_vars

\* C21: for every occupied cell, rotateCellCW applied four times to it returns
\* the tile to its original rotation and to an identical effective mask, for
\* every piece and every starting rotation.
C21_FourTurnsRestore ==
  (Returned("rotateCellCW4") /\ getCell(pre.grid, ret.args[1], ret.args[2]) # NullTile) =>
    LET x == ret.args[1]
        y == ret.args[2]
    IN  /\ grid[y][x] = pre.grid[y][x]
        /\ pieceMask(grid[y][x].pieceId, grid[y][x].rot)
             = pieceMask(pre.grid[y][x].pieceId, pre.grid[y][x].rot)
        /\ grid = pre.grid

\* The fourth turn of a T3 that started at rotation 2 has returned.
C21_Witness ==
  /\ Returned("rotateCellCW4")
  /\ ret.args = <<1, 0>>
  /\ pre.grid[0][1] = [kind |-> "PIPE", pieceId |-> "T3", rot |-> 2]
  /\ grid[0][1].rot = 2

(***************************************************************************)
(* applyGravity as a function of the grid, on every 2x3 grid of three      *)
(* different tiles and empty cells.                                        *)
(***************************************************************************)
GravityInit ==
  /\ stage = MkStage(2, 3, "ANY_EDGE", AllColumns, AllColumns, DeckPipes, FillAll, 1)
  /\ grid \in EditGrids(2, 3)
  /\ rng = XorShiftNew(1)
  /\ waterFlows = 0
  /\ pc = "idle"
  /\ steps = <<>>
  /\ flows = 0
  /\ passes = 0
  /\ clearLog = <<>>
  /\ pre = NoPre
  /\ ret = NoRet
  /\ nOps = 0
  /\ iter = 0
  /\ twin = NoTwin
  /\ heap = NoHeap
  /\ drop = NoDrop
  /\ scene = NoScene

ApplyGravity ==
  /\ CanCall
  /\ \E r \in {applyGravity(grid)} :
       /\ grid' = r.grid
       /\ Called("applyGravity", <<>>, [NoOut EXCEPT !.moves = r.moves])
  /\ pc' = "returned"
  /\ UNCHANGED <<stage, twin, heap, drop, scene, rng, waterFlows, steps, flows, passes, clearLog, iter>>

GravitySpecNext ==
  \/ ApplyGravity
  \/ CallerContinues

GravitySpec == GravityInit /\ [][GravitySpecNext]_vars

\* The rows of the occupied cells of column x of g, from the bottom up.
OccupiedRows(g, x) ==
  SelectSeq([i \in 1 .. Height(g) |-> Height(g) - i], LAMBDA y : g[y][x] # NullTile)

\* The tiles of column x of g, from the bottom up.
ColumnTiles(g, x) ==
  [k \in 1 .. Len(OccupiedRows(g, x)) |-> g[OccupiedRows(g, x)[k]][x]]

\* One move for every tile of g whose row changes when each column is
\* compacted downward: the k-th tile from the bottom lands k - 1 rows above
\* the bottom row.
FallMoves(g) ==
  {Move(Pos(x, OccupiedRows(g, x)[k]), Pos(x, Height(g) - k), g[OccupiedRows(g, x)[k]][x]) :
     <<x, k>> \in {xk \in (0 .. Width(g) - 1) \X (1 .. Height(g)) :
                     /\ xk[2] <= Len(OccupiedRows(g, xk[1]))
                     /\ OccupiedRows(g, xk[1])[xk[2]] # Height(g) - xk[2]}}

\* C22: gravity compacts each column independently: afterwards no occupied
\* cell has an empty cell below it, the bottom-to-top sequence of tiles of
\* each column is the same as before, no tile changes column, and the moves
\* hold exactly one record {from, to, tile} for every tile whose row changed,
\* with to.x = from.x and to.y > from.y, and none for the other tiles.
C22_GravityCompactsColumns ==
  Returned("applyGravity") =>
    /\ \A x \in 0 .. Width(grid) - 1 :
         /\ \A y \in 0 .. Height(grid) - 2 : grid[y][x] # NullTile => grid[y + 1][x] # NullTile
         /\ ColumnTiles(grid, x) = ColumnTiles(pre.grid, x)
    /\ SeqSet(ret.out.moves) = FallMoves(pre.grid)
    /\ Len(ret.out.moves) = Cardinality(FallMoves(pre.grid))
    /\ \A i \in 1 .. Len(ret.out.moves) :
         /\ ret.out.moves[i].to.x = ret.out.moves[i].from.x
         /\ ret.out.moves[i].to.y > ret.out.moves[i].from.y

\* Gravity has returned from a grid whose column 0 held two different tiles
\* above an empty bottom cell and whose column 1 had a gap in the middle.
C22_Witness ==
  /\ Returned("applyGravity")
  /\ pre.grid[2][0] = NullTile
  /\ pre.grid[1][0] # NullTile
  /\ pre.grid[0][0] # NullTile
  /\ pre.grid[1][0] # pre.grid[0][0]
  /\ pre.grid[2][1] # NullTile
  /\ pre.grid[1][1] = NullTile
  /\ pre.grid[0][1] # NullTile
  /\ Len(ret.out.moves) = 3

(***************************************************************************)
(* refillFromTop on every 2x2 grid of two different tiles and empty cells, *)
(* for three decks and three generator states.                             *)
(***************************************************************************)
RefillStages ==
  {MkStage(2, 2, "ANY_EDGE", AllColumns, AllColumns, deck, FillAll, sd) :
     deck \in {DeckPipes, DeckAll, DeckEmpty}, sd \in {1, 9, 27}}

RefillInit ==
  /\ stage \in RefillStages
  /\ grid \in [0 .. 1 -> [0 .. 1 -> {[kind |-> "PIPE", pieceId |-> "I2", rot |-> 0],
                                      [kind |-> "PIPE", pieceId |-> "L2", rot |-> 1],
                                      NullTile}]]
  /\ rng = XorShiftNew(stage.seed)
  /\ waterFlows = 0
  /\ pc = "idle"
  /\ steps = <<>>
  /\ flows = 0
  /\ passes = 0
  /\ clearLog = <<>>
  /\ pre = NoPre
  /\ ret = NoRet
  /\ nOps = 0
  /\ iter = 0
  /\ twin = NoTwin
  /\ heap = NoHeap
  /\ drop = NoDrop
  /\ scene = NoScene

RefillFromTop ==
  /\ CanCall
  /\ \E r \in {refillFromTop(stage, grid, rng)} :
       /\ grid' = r.grid
       /\ rng' = r.rng
       /\ Called("refillFromTop", <<>>, [NoOut EXCEPT !.threw = r.threw, !.moves = r.moves])
  /\ pc' = "returned"
  /\ UNCHANGED <<stage, twin, heap, drop, scene, waterFlows, steps, flows, passes, clearLog, iter>>

RefillNext ==
  \/ RefillFromTop
  \/ CallerContinues

RefillSpec == RefillInit /\ [][RefillNext]_vars

EmptyCells(g) == {c \in Cells(g) : g[c.y][c.x] = NullTile}

\* C23: refillFromTop leaves the grid fully occupied, does not change any cell
\* that was already occupied, and returns exactly one move per cell that was
\* empty, each with from = (x, -1) off-grid and to = the filled in-bounds cell
\* in the same column x, carrying a copy of the tile placed there.
C23_RefillFillsEveryEmptyCell ==
  (Returned("refillFromTop") /\ ~ret.out.threw) =>
    /\ EmptyCells(grid) = {}
    /\ \A c \in Cells(grid) \ EmptyCells(pre.grid) : grid[c.y][c.x] = pre.grid[c.y][c.x]
    /\ {ret.out.moves[i].to : i \in 1 .. Len(ret.out.moves)} = EmptyCells(pre.grid)
    /\ Len(ret.out.moves) = Cardinality(EmptyCells(pre.grid))
    /\ \A i \in 1 .. Len(ret.out.moves) :
         /\ ret.out.moves[i].from = Pos(ret.out.moves[i].to.x, -1)
         /\ ret.out.moves[i].tile = grid[ret.out.moves[i].to.y][ret.out.moves[i].to.x]

\* refillFromTop has returned from a grid with three empty cells and one
\* occupied cell.
C23_Witness ==
  /\ Returned("refillFromTop")
  /\ ~ret.out.threw
  /\ Cardinality(EmptyCells(pre.grid)) = 3
  /\ Len(ret.out.moves) = 3
  /\ EmptyCells(grid) = {}

(***************************************************************************)
(* Construction for every kind of initialFill: absent, zero, negative,     *)
(* fewer rows than the board, more rows than the board, and row counts     *)
(* beyond 32 bits.                                                         *)
(***************************************************************************)
\* initialFill with rowsFromBottom = hi * 65536 + lo.
FillRowsWide(hi, lo) ==
  [present |-> TRUE, rowsFromBottom |-> [hi |-> hi, lo |-> lo], useInitialWeights |-> FALSE,
   initialWeights |-> << >>]

BuildFills ==
  {FillNone, FillAll}
  \cup {FillRows(n) : n \in {-1, 0, 1, 2, 5}}
  \cup {FillRowsWide(32768, 0), FillRowsWide(65536, 1)}

BuildStages ==
  {MkStage(d[1], d[2], "ANY_EDGE", AllColumns, AllColumns, DeckPipes, fill, sd) :
     d \in {<<2, 1>>, <<2, 2>>, <<1, 3>>}, fill \in BuildFills, sd \in {6, 9}}

BuildInit ==
  \E st \in BuildStages :
    \E b \in {NewBoard(st)} :
      /\ stage = st
      /\ grid = b.grid
      /\ rng = b.rng
      /\ waterFlows = 0
      /\ pc = IF b.threw THEN "failed" ELSE "idle"
      /\ steps = <<>>
      /\ flows = 0
      /\ passes = 0
      /\ clearLog = <<>>
      /\ pre = NoPre
      /\ ret = NoRet
      /\ nOps = 0
      /\ iter = 0
      /\ twin = NoTwin
      /\ heap = NoHeap
      /\ drop = NoDrop
      /\ scene = NoScene

BuildNext ==
  \/ \E c \in Cells(grid) : RotateCellCW(c.x, c.y)
  \/ ResolveAllCall
  \/ ResolveClearPass
  \/ ResolveReturn
  \/ CallerContinues

BuildSpec == BuildInit /\ [][BuildNext]_vars

\* min(rowsFromBottom, height), and 0 when initialFill is absent or
\* rowsFromBottom <= 0, for rowsFromBottom = hi * 65536 + lo.
RowsToFill(st) ==
  IF ~st.fill.present THEN 0
  ELSE IF st.fill.rowsFromBottom.hi > 0 THEN st.height
  ELSE IF st.fill.rowsFromBottom.lo <= 0 THEN 0
  ELSE IF st.fill.rowsFromBottom.lo < st.height THEN st.fill.rowsFromBottom.lo
  ELSE st.height

\* The board is as the constructor left it: no call has been made.
JustBuilt == pc = "idle" /\ nOps = 0

\* C24: construction builds a width x height grid, fills exactly the bottom
\* min(rowsFromBottom, height) rows (none when initialFill is absent or
\* rowsFromBottom <= 0) and leaves the rows above empty, and does not
\* resolve: the flow counter is 0 and the filled tiles are in place even when
\* the initial grid holds a valid drain-reaching network.
C24_ConstructionFillsBottomRows ==
  JustBuilt =>
    /\ Width(grid) = stage.width
    /\ Height(grid) = stage.height
    /\ \A c \in Cells(grid) :
         (grid[c.y][c.x] # NullTile) <=> (c.y >= stage.height - RowsToFill(stage))
    /\ waterFlows = 0

(***************************************************************************)
(* The play state after resolveAndAnimate.                                 *)
(***************************************************************************)
\* The play state is CLEAR exactly when the flow count has reached the goal,
\* and PLAYING otherwise.
ClearIffGoal ==
  /\ scene.state = "CLEAR" <=> scene.flows >= stage.goal
  /\ scene.state \in {"CLEAR", "PLAYING"}

\* No create or gesture is suspended inside resolveAndAnimate.
NoResolveInProgress ==
  \A k \in 1 .. Len(scene.tasks) : scene.tasks[k].at \notin {"start", "playSteps"}

\* C25: after every completed resolveAndAnimate in the scene the play state
\* is CLEAR if and only if the cumulative flow count is >= the goal, and
\* PLAYING otherwise; completion is never signalled while the count is below
\* the goal.
C25_ClearIffGoalReached ==
  /\ [](scene.state = "CLEAR" => scene.flows >= stage.goal)
  /\ [](NoResolveInProgress => ClearIffGoal)
  /\ [][(\E k \in 1 .. MaxTasks : PlaybackDone(k)) => ClearIffGoal']_vars

\* A resolveAndAnimate has completed with the goal reached and none is in
\* progress.
C25_Witness ==
  /\ scene.state = "CLEAR"
  /\ scene.flows >= stage.goal
  /\ scene.attached
  /\ NoResolveInProgress

(***************************************************************************)
(* The model's cumulative flow counter.                                    *)
(***************************************************************************)
\* C26: the cumulative flow counter starts at 0, never decreases, increases
\* by exactly the returned flowsGained on every resolveAll call (one per
\* cleared network), and is left unchanged by rotateCellCW, swapCells,
\* shiftAlongPath and triggerArrowAt.
C26_FlowCounterFollowsResolve ==
  /\ [](JustBuilt => waterFlows = 0)
  /\ [][waterFlows' >= waterFlows]_vars
  /\ []((Returned("resolveAll") /\ ~ret.out.threw) =>
          /\ waterFlows = pre.waterFlows + ret.out.flowsGained
          /\ ret.out.flowsGained = Len(clearLog))
  /\ [](\A op \in {"rotateCellCW", "swapCells", "shiftAlongPath", "triggerArrowAt"} :
          Returned(op) => waterFlows = pre.waterFlows)

\* A later resolveAll has returned two flows or more on a counter that
\* already held some.
C26_Witness ==
  /\ Returned("resolveAll")
  /\ ~ret.out.threw
  /\ pre.waterFlows > 0
  /\ ret.out.flowsGained >= 2
  /\ waterFlows = pre.waterFlows + ret.out.flowsGained

(***************************************************************************)
(* What triggerArrowAt leaves alone.                                       *)
(***************************************************************************)
OccupiedCells(g) == Cells(g) \ EmptyCells(g)

\* C27: triggerArrowAt acts only on ARROW tiles: called on an empty cell or
\* on a PIPE tile it returns an empty step list and leaves the grid
\* unchanged; and in every case it emits no WATER or FLOW_COUNT step (only a
\* CLEAR and at most one DROP of tiles already on the board), does not refill
\* (no new tile, generator untouched) and does not change the flow counter.
C27_TriggerOnlyOnArrows ==
  Returned("triggerArrowAt") =>
    /\ ~IsArrowAt(pre.grid, ret.args[1]) => ret.out.steps = <<>> /\ grid = pre.grid
    /\ \A k \in 1 .. Len(ret.out.steps) :
         /\ ret.out.steps[k].type \in {"CLEAR", "DROP"}
         /\ ret.out.steps[k].type = "DROP" =>
              \A i \in 1 .. Len(ret.out.steps[k].moves) :
                ret.out.steps[k].moves[i].from \in OccupiedCells(pre.grid)
    /\ Cardinality(OccupiedCells(grid)) =
         Cardinality(OccupiedCells(pre.grid))
           - (IF ret.out.steps = <<>> THEN 0 ELSE Len(ret.out.steps[1].cells))
    /\ rng = pre.rng
    /\ waterFlows = pre.waterFlows

\* triggerArrowAt has returned from an arrow with a CLEAR and a DROP step,
\* leaving empty cells behind.
C27_Witness ==
  /\ Returned("triggerArrowAt")
  /\ IsArrowAt(pre.grid, ret.args[1])
  /\ Len(ret.out.steps) = 2
  /\ EmptyCells(grid) # {}

(***************************************************************************)
(* rotateMask and pieceMask as functions, on every 4-bit mask, every       *)
(* rotation and every piece.                                               *)
(***************************************************************************)
MaskInit ==
  /\ stage = MkStage(1, 1, "ANY_EDGE", AllColumns, AllColumns, DeckPipes, FillNone, 1)
  /\ grid = EmptyGrid(1, 1)
  /\ rng = XorShiftNew(1)
  /\ waterFlows = 0
  /\ pc = "idle"
  /\ steps = <<>>
  /\ flows = 0
  /\ passes = 0
  /\ clearLog = <<>>
  /\ pre = NoPre
  /\ ret = NoRet
  /\ nOps = 0
  /\ iter = 0
  /\ twin = NoTwin
  /\ heap = NoHeap
  /\ drop = NoDrop
  /\ scene = NoScene

\* A mask function has returned the mask m for the arguments args.
MaskReturned(op, args, m) ==
  /\ pc' = "returned"
  /\ ret' = [op |-> op, args |-> args,
             out |-> [threw |-> FALSE, steps |-> <<>>, flowsGained |-> 0, moves |-> <<>>,
                      mask |-> m]]
  /\ UNCHANGED <<stage, twin, heap, drop, scene, grid, rng, waterFlows, steps, flows, passes, clearLog,
                 pre, nOps, iter>>

RotateMask(mask, rot) ==
  /\ pc = "idle"
  /\ MaskReturned("rotateMask", <<mask, rot>>, rotateMask(mask, rot))

\* rotateMask applied to the mask a rotateMask call has returned.
RotateMaskAgain(rot) ==
  /\ pc = "returned"
  /\ ret.op = "rotateMask"
  /\ MaskReturned("rotateMaskTwice", ret.args \o <<rot>>, rotateMask(ret.out.mask, rot))

PieceMask(pieceId, rot) ==
  /\ pc = "idle"
  /\ MaskReturned("pieceMask", <<pieceId, rot>>, pieceMask(pieceId, rot))

MaskNext ==
  \/ \E mask \in 0 .. 15, rot \in 0 .. 3 : RotateMask(mask, rot)
  \/ \E rot \in 0 .. 3 : RotateMaskAgain(rot)
  \/ \E pieceId \in IdSet, rot \in 0 .. 3 : PieceMask(pieceId, rot)
  \/ CallerContinues

MaskSpec == MaskInit /\ [][MaskNext]_vars

\* Up, Right, Down, Left in their cyclic order, as bits.
Cycle == <<1, 2, 4, 8>>

\* The bits of the mask m, as positions 0 .. 3 of the cyclic order.
BitsOf(m) == {i \in 0 .. 3 : (m \div Cycle[i + 1]) % 2 = 1}

\* C28: for every 4-bit mask m and rotation r, rotateMask(m, r) is m with each
\* set bit advanced r positions in the cyclic order Up, Right, Down, Left, Up:
\* the number of open directions is preserved, rotateMask(m, 0) = m, and
\* rotateMask(rotateMask(m, a), b) = rotateMask(m, (a + b) mod 4);
\* pieceMask(id, r) = rotateMask(baseMask(id), r).
C28_RotateMaskAdvancesBits ==
  /\ Returned("rotateMask") =>
       /\ ret.out.mask \in 0 .. 15
       /\ BitsOf(ret.out.mask) = {(i + ret.args[2]) % 4 : i \in BitsOf(ret.args[1])}
       /\ Cardinality(BitsOf(ret.out.mask)) = Cardinality(BitsOf(ret.args[1]))
       /\ ret.args[2] = 0 => ret.out.mask = ret.args[1]
  /\ Returned("rotateMaskTwice") =>
       /\ ret.out.mask \in 0 .. 15
       /\ BitsOf(ret.out.mask)
            = {(i + ((ret.args[2] + ret.args[3]) % 4)) % 4 : i \in BitsOf(ret.args[1])}
       /\ ret.out.mask = rotateMask(ret.args[1], (ret.args[2] + ret.args[3]) % 4)
  /\ Returned("pieceMask") =>
       /\ ret.out.mask = rotateMask(PIECE_DEFS(ret.args[1]).baseMask, ret.args[2])
       /\ BitsOf(ret.out.mask)
            = {(i + ret.args[2]) % 4 : i \in BitsOf(PIECE_DEFS(ret.args[1]).baseMask)}

\* rotateMask has been applied twice, by 3 and by 2, to the mask Up + Right.
C28_Witness ==
  /\ Returned("rotateMaskTwice")
  /\ ret.args = <<3, 3, 2>>
  /\ ret.out.mask = 6

(***************************************************************************)
(* The stage configuration under every operation of the engine.            *)
(***************************************************************************)
\* initialFill with an override of the initial weights.
FillOverride ==
  [present |-> TRUE, rowsFromBottom |-> [hi |-> 0, lo |-> 1], useInitialWeights |-> TRUE,
   initialWeights |-> ("ARROW" :> 30 @@ "I2" :> 20)]

ConfigStages ==
  {MkStage(1, 2, "ANY_EDGE", AllColumns, AllColumns, DeckAll, FillOverride, sd) : sd \in {1, 9}}
  \cup {MkStage(2, 1, "MASKED", Columns({0}), AllColumns, DeckPipes, FillAll, sd) : sd \in {6}}

ConfigInit ==
  \E st \in ConfigStages :
    \E b \in {NewBoard(st)} :
      /\ stage = st
      /\ grid = b.grid
      /\ rng = b.rng
      /\ waterFlows = 0
      /\ pc = IF b.threw THEN "failed" ELSE "idle"
      /\ steps = <<>>
      /\ flows = 0
      /\ passes = 0
      /\ clearLog = <<>>
      /\ pre = NoPre
      /\ ret = NoRet
      /\ nOps = 0
      /\ iter = 0
      /\ twin = NoTwin
      /\ heap = NoHeap
      /\ drop = NoDrop
      /\ scene = NoScene

ConfigNext ==
  \/ \E c \in Cells(grid) : RotateCellCW(c.x, c.y)
  \/ \E a \in Cells(grid), b \in Cells(grid) : SwapCells(a, b)
  \/ \E path \in ProbePaths(grid) : ShiftAlongPath(path)
  \/ \E c \in Cells(grid) : TriggerArrowAt(c)
  \/ SpawnNextPiece
  \/ RefillFromTop
  \/ ResolveAllCall
  \/ ResolveClearPass
  \/ ResolveReturn
  \/ CallerContinues

ConfigSpec == ConfigInit /\ [][ConfigNext]_vars

\* C29: no engine operation (construction, rotateCellCW, swapCells,
\* shiftAlongPath, resolveAll, triggerArrowAt, refill, spawn) modifies the
\* stage configuration it was given, including the deck weights, the
\* enabled-piece filter and the optional initial-weight override.
C29_StageConfigNeverModified ==
  /\ [](stage \in ConfigStages)
  /\ [][stage' = stage]_vars

\* A spawn has returned a tile, as the second call or later, on a full board
\* built with an initial-weight override.
C29_Witness ==
  /\ Returned("spawnNextPiece")
  /\ ~ret.out.threw
  /\ stage.fill.initialWeights # << >>
  /\ EmptyCells(grid) = {}
  /\ nOps >= 2

(***************************************************************************)
(* The membership test of the validator on networks the search computed.   *)
(***************************************************************************)
\* Some cell of the network has an open connector toward an in-bounds
\* occupied neighbour with the opposite direction open that is not in the
\* network.
LinksOutside(g, network) ==
  \E c \in SeqSet(network) :
    \E n \in Cells(g) \ SeqSet(network) : g[n.y][n.x] # NullTile /\ Linked(g, c, n)

\* C30 as stated: there are grids on which the network computed for an inlet
\* is rejected by the validator solely by the membership condition: some
\* network cell has an open connector pointing at an in-bounds occupied
\* neighbour with the complementary direction open that is not a member of
\* the computed network. Stated for the grids of the board's dimensions.
C30_MembershipRejectsSomeNetwork ==
  \E g \in ProbeGrids(Width(grid), Height(grid)) :
    \E x \in 0 .. Width(grid) - 1 : LinksOutside(g, collectNetworkFromStart(g, x))

\* C30, amended: on every grid and for every inlet, no cell of the computed
\* network has an open connector toward an in-bounds occupied neighbour with
\* the opposite direction open outside the network; the validator never
\* rejects a computed network by the membership condition, and a computed
\* network it rejects is rejected for an opening toward the outside, an empty
\* cell or a closed neighbour.
C30_MembershipNeverRejects ==
  Returned("checkNetworkValid") =>
    /\ ~LinksOutside(grid, ret.out.network)
    /\ ret.out.reason \in {"ok", "OUTSIDE", "EMPTY", "CLOSED"}
    /\ ret.out.ok <=> ret.out.reason = "ok"

\* The validator has rejected a computed network of three cells for a closed
\* neighbour.
C30_Witness ==
  /\ Returned("checkNetworkValid")
  /\ Len(ret.out.network) = 3
  /\ ~ret.out.ok
  /\ ret.out.reason = "CLOSED"

(***************************************************************************)
(* One network and one flow per clearing pass.                             *)
(***************************************************************************)
\* The occupied cells outside S that touch a cell of S.
TouchingOutside(g, S) ==
  {n \in OccupiedCells(g) \ S :
     \E c \in S : (c.x = n.x /\ (c.y - n.y) \in {-1, 1}) \/ (c.y = n.y /\ (c.x - n.x) \in {-1, 1})}

\* C31: each clear of resolveAll lists and removes exactly the cells linked to
\* the winning inlet cell by mask-matched openings on the grid before the
\* clear, occupied cells touching that network without such a link stay, every
\* clear has its own FLOW_COUNT step of delta 1 right after its CLEAR step,
\* and the local flow count is the number of clears.
C31_OneNetworkOneFlowPerClear ==
  /\ flows = Len(clearLog)
  /\ Cardinality(StepsOfType(steps, "CLEAR")) = Len(clearLog)
  /\ Cardinality(StepsOfType(steps, "FLOW_COUNT")) = Len(clearLog)
  /\ \A i \in 1 .. Len(clearLog) :
       LET e == clearLog[i]
           k == NthOfType(steps, "CLEAR", i, 1)
           net == ReachableFrom(e.grid, {Pos(e.startX, 0)})
       IN  /\ k # 0
           /\ SeqSet(steps[k].cells) = net
           /\ Len(steps[k].cells) = Cardinality(net)
           /\ OccupiedCells(clearCells(e.grid, steps[k].cells)) = OccupiedCells(e.grid) \ net
           /\ \A c \in Cells(e.grid) \ net :
                clearCells(e.grid, steps[k].cells)[c.y][c.x] = e.grid[c.y][c.x]
           /\ k + 1 <= Len(steps)
           /\ steps[k + 1].type = "FLOW_COUNT"
           /\ steps[k + 1].delta = 1

\* A returned call with two clears from different inlet columns, the first
\* of which left an occupied cell that touched its network.
C31_Witness ==
  /\ ResolveReturned
  /\ Len(clearLog) >= 2
  /\ clearLog[1].startX # clearLog[2].startX
  /\ TouchingOutside(clearLog[1].grid, SeqSet(clearLog[1].network)) # {}

(***************************************************************************)
(* The scene after the goal has been reached.                              *)
(***************************************************************************)
\* C32 as claimed: once the play state is CLEAR, no pointer event and no
\* completion of a tween or playback takes it out of CLEAR, and none makes a
\* rotateCellCW, swapCells or resolveAll call that changes the model's grid,
\* generator or flow counter.
\* (Refuted: a drag released while PLAYING locks only after its dropTo tween;
\* when a tap made during that tween has brought the state to CLEAR, the
\* drag's lockInteract sets RESOLVING and its swapCells and resolveAll run.)
C32_ClearIsAbsorbing ==
  [][scene.state = "CLEAR" =>
       /\ scene'.state = "CLEAR"
       /\ grid' = grid
       /\ rng' = rng
       /\ waterFlows' = waterFlows]_vars

(***************************************************************************)
(* Lock and unlock of the input.  The playbacks and tweens that are        *)
(* awaited complete; one stage has a deck without a selectable piece, so   *)
(* that the resolveAll of a gesture throws at its refill.                  *)
(***************************************************************************)
LockStages ==
  {MkStage(2, 1, "ANY_EDGE", AllColumns, AllColumns, DeckPipes, FillAll, 1),
   MkStage(2, 1, "ANY_EDGE", AllColumns, AllColumns, DeckEmpty, FillAll, 19)}

LockInit == \E st \in LockStages : SceneInitOn(st)

LockSpec ==
  /\ LockInit
  /\ [][SceneNext]_vars
  /\ WF_vars(\E k \in 1 .. MaxTasks : PlaybackDone(k))

\* C33: once the scene's input is attached, a play state of RESOLVING is
\* always followed by PLAYING or CLEAR, provided every awaited tween and
\* playback completes; this also when the resolveAll of the gesture throws.
C33_LockIsFollowedByUnlock ==
  (scene.attached /\ scene.state = "RESOLVING") ~> (scene.state \in {"PLAYING", "CLEAR"})

\* A gesture whose resolveAll threw has left the input unlocked: the model
\* counted a flow the scene did not, and no playback is awaited.
C33_Witness ==
  /\ scene.attached
  /\ scene.state = "PLAYING"
  /\ waterFlows > scene.flows
  /\ scene.tasks = <<>>

(***************************************************************************)
(* shiftAlongPath on paths that visit a cell more than once.               *)
(***************************************************************************)
\* The cell whose tile object the cell c holds after the write loop of
\* shiftAlongPath(p): the source of the last write to c, or c itself.
ShiftOrigin(p, c) ==
  LET writes == {i \in 1 .. Len(p) : p[i] = c}
  IN  IF writes = {} THEN c
      ELSE LET last == CHOOSE i \in writes : \A j \in writes : j <= i
           IN  p[(last % Len(p)) + 1]

\* How many cells of g hold the tile t.
TileCount(g, t) == Cardinality({c \in Cells(g) : g[c.y][c.x] = t})

\* C34 as claimed: after shiftAlongPath has accepted a path, whether or not
\* the path visits a cell twice, every tile is on the grid as many times as
\* before and no two cells hold the tile object of the same original cell.
\* (Refuted: on the path a, b, a the loop writes b's tile to a, a's tile to b
\* and a's tile to a again, so b's tile is gone and a and b hold one object.)
C34_ShiftIsPermutation ==
  (Returned("shiftAlongPath") /\ ret.out.moves # <<>>) =>
    /\ \A t \in EditTiles : TileCount(grid, t) = TileCount(pre.grid, t)
    /\ \A c \in Cells(grid), d \in Cells(grid) :
         c # d => ShiftOrigin(ret.args, c) # ShiftOrigin(ret.args, d)

(***************************************************************************)
(* The grid resolveAll returns on.                                         *)
(***************************************************************************)
\* C35: when resolveAll returns, no enabled inlet column has a network that
\* is non-empty, reaches the drain and is valid, and a resolveAll() called
\* again at once returns no step and flowsGained = 0 and leaves the grid, the
\* generator and the flow counter as they were.
C35_ResolveReachesFixpoint ==
  /\ ResolveReturned =>
       \A x \in 0 .. Width(grid) - 1 :
         ~(/\ FaucetEnabled(stage, "top", x)
           /\ LET net == InletNetwork(grid, Pos(x, 0), DirU) IN
                /\ net # {}
                /\ DrainOpenings(grid, net) # {}
                /\ LeakFree(stage, grid, net))
  /\ Returned("resolveAllAgain") =>
       /\ ~ret.out.threw
       /\ ret.out.steps = <<>>
       /\ ret.out.flowsGained = 0
       /\ grid = pre.grid
       /\ rng = pre.rng
       /\ waterFlows = pre.waterFlows

\* The second of two resolveAll calls has returned, the first having cleared
\* twice or more.
C35_Witness ==
  /\ Returned("resolveAllAgain")
  /\ Len(clearLog) >= 2
  /\ waterFlows >= 2

(***************************************************************************)
(* The scene's flow counter and the model's.                               *)
(***************************************************************************)
\* The resolveAndAnimate of a gesture that left the model's grid as g1 runs
\* to its end: resolveAll returns, and with an empty step list.
CompletesAtOnce(g1) ==
  \E r \in {resolveAll(stage, g1, rng)} : ~r.threw /\ ~r.cut /\ r.steps = <<>>

\* A step in which a resolveAndAnimate completes: the playback it awaited
\* ends, or a tap or a swap resolves without any step to play.
ResolveCompletes ==
  \/ \E k \in 1 .. MaxTasks : PlaybackDone(k)
  \/ \E p \in Pointers :
       /\ PointerUp(p)
       /\ scene.pointerId = p
       /\ scene.downCell # NoCell
       /\ canInteract(scene)
       /\ IF ~scene.dragging
          THEN CompletesAtOnce(rotateCellCW(grid, scene.downCell.x, scene.downCell.y))
          ELSE /\ ~scene.ghost
               /\ scene.candidate \notin {NoCell, scene.downCell}
               /\ CompletesAtOnce(swapCells(grid, scene.downCell, scene.candidate))
  \/ \E k \in 1 .. MaxTasks :
       /\ TweenDone(k)
       /\ scene.tasks[k].at = "dropTo"
       /\ scene.state # "CLEAR"
       /\ CompletesAtOnce(swapCells(grid, scene.tasks[k].start, scene.tasks[k].end))

ObjectStages ==
  {MkStage(3, 1, "ANY_EDGE", AllColumns, AllColumns, DeckPipes, FillAll, sd) : sd \in {1, 19}}
  \cup {MkStage(1, 2, "ANY_EDGE", AllColumns, AllColumns, DeckPipes, FillAll, sd) : sd \in {6, 15}}

\* One object per occupied cell, as the constructor leaves them.
OwnObjects(g) ==
  [y \in 0 .. Height(g) - 1 |->
     [x \in 0 .. Width(g) - 1 |-> IF g[y][x] = NullTile THEN 0 ELSE y * Width(g) + x + 1]]

ObjectInit ==
  \E st \in ObjectStages :
    \E b \in {NewBoard(st)} :
      /\ stage = st
      /\ grid = b.grid
      /\ rng = b.rng
      /\ waterFlows = 0
      /\ pc = "idle"
      /\ steps = <<>>
      /\ flows = 0
      /\ passes = 0
      /\ clearLog = <<>>
      /\ pre = NoPre
      /\ ret = NoRet
      /\ nOps = 0
      /\ iter = 0
      /\ twin = NoTwin
      /\ heap = [refs |-> OwnObjects(b.grid), held |-> <<>>]
      /\ drop = NoDrop
      /\ scene = NoScene

\* An object id no cell refers to.
FreshRef(refs) ==
  CHOOSE n \in 1 .. Width(refs) * Height(refs) + 1 :
    /\ \A c \in Cells(refs) : refs[c.y][c.x] # n
    /\ \A k \in 1 .. n - 1 : \E c \in Cells(refs) : refs[c.y][c.x] = k

\* t.rot = rotCW(t.rot) on the object the cell (x, y) refers to: the value
\* every cell referring to that object shows.
rotateTileObject(g, refs, x, y) ==
  IF getCell(g, x, y) = NullTile THEN g
  ELSE [yy \in 0 .. Height(g) - 1 |->
          [xx \in 0 .. Width(g) - 1 |->
             IF refs[yy][xx] = refs[y][x]
             THEN [g[yy][xx] EXCEPT !.rot = rotCW(@)]
             ELSE g[yy][xx]]]

\* The references after the moves of one DROP step from index i on: a move
\* from above the board places a new object, any other carries the
\* reference from its source cell, which is set to null.
RECURSIVE DropRefs(_, _, _)
DropRefs(refs, moves, i) ==
  IF i > Len(moves) THEN refs
  ELSE LET mv == moves[i] IN
       IF mv.from.y < 0
       THEN DropRefs(SetCell(refs, mv.to.x, mv.to.y, FreshRef(refs)), moves, i + 1)
       ELSE DropRefs(SetCell(SetCell(refs, mv.to.x, mv.to.y, refs[mv.from.y][mv.from.x]),
                             mv.from.x, mv.from.y, 0),
                     moves, i + 1)

\* The references after the steps of a resolveAll from index i on.
RECURSIVE StepRefs(_, _, _)
StepRefs(refs, ss, i) ==
  IF i > Len(ss) THEN refs
  ELSE IF ss[i].type = "CLEAR"
  THEN StepRefs([y \in 0 .. Height(refs) - 1 |->
                   [x \in 0 .. Width(refs) - 1 |->
                      IF InSeq(ss[i].cells, Pos(x, y)) THEN 0 ELSE refs[y][x]]],
                ss, i + 1)
  ELSE IF ss[i].type = "DROP" THEN StepRefs(DropRefs(refs, ss[i].moves, 1), ss, i + 1)
  ELSE StepRefs(refs, ss, i + 1)

\* The tile copies in the moves of the DROP steps of a step list.
RECURSIVE MoveTiles(_, _)
MoveTiles(ss, i) ==
  IF i > Len(ss) THEN <<>>
  ELSE IF ss[i].type = "DROP"
  THEN [k \in 1 .. Len(ss[i].moves) |-> ss[i].moves[k].tile] \o MoveTiles(ss, i + 1)
  ELSE MoveTiles(ss, i + 1)

ObjRotateCellCW(x, y) ==
  /\ CanCall
  /\ grid' = rotateTileObject(grid, heap.refs, x, y)
  /\ pc' = "returned"
  /\ Called("rotateCellCW", <<x, y>>, NoOut)
  /\ UNCHANGED <<stage, twin, heap, drop, scene, rng, waterFlows, steps, flows, passes, clearLog, iter>>

ObjSwapCells(a, b) ==
  /\ CanCall
  /\ grid' = swapCells(grid, a, b)
  /\ heap' = [heap EXCEPT !.refs = swapCells(@, a, b)]
  /\ pc' = "returned"
  /\ Called("swapCells", <<a, b>>, NoOut)
  /\ UNCHANGED <<stage, twin, drop, scene, rng, waterFlows, steps, flows, passes, clearLog, iter>>

ObjShiftAlongPath(path) ==
  /\ CanCall
  /\ \E r \in {shiftAlongPath(grid, path)} :
       /\ grid' = r.grid
       /\ heap' = IF r.moves = <<>> THEN heap
                  ELSE [heap EXCEPT !.refs =
                          [y \in 0 .. Height(grid) - 1 |->
                             [x \in 0 .. Width(grid) - 1 |->
                                heap.refs[ShiftOrigin(path, Pos(x, y)).y][ShiftOrigin(path, Pos(x, y)).x]]]]
       /\ Called("shiftAlongPath", path, [NoOut EXCEPT !.moves = r.moves])
  /\ pc' = "returned"
  /\ UNCHANGED <<stage, twin, drop, scene, rng, waterFlows, steps, flows, passes, clearLog, iter>>

\* resolveAll as one call; the caller keeps the returned step list.
ObjResolveAll ==
  /\ CanCall
  /\ \E r \in {resolveAll(stage, grid, rng)} :
       /\ ~r.cut
       /\ ~r.threw
       /\ grid' = r.grid
       /\ rng' = r.rng
       /\ waterFlows' = waterFlows + r.flowsGained
       /\ heap' = [refs |-> StepRefs(heap.refs, r.steps, 1),
                   held |-> IF r.steps = <<>> THEN heap.held ELSE MoveTiles(r.steps, 1)]
       /\ Called("resolveAll", <<>>, [NoOut EXCEPT !.steps = r.steps, !.flowsGained = r.flowsGained])
  /\ pc' = "returned"
  /\ UNCHANGED <<stage, twin, drop, scene, steps, flows, passes, clearLog, iter>>

ObjectNext ==
  \/ \E c \in Cells(grid) : ObjRotateCellCW(c.x, c.y)
  \/ \E a \in Cells(grid), b \in Cells(grid) : ObjSwapCells(a, b)
  \/ \E path \in EditPaths(grid) : ObjShiftAlongPath(path)
  \/ ObjResolveAll
  \/ CallerContinues

ObjectSpec == ObjectInit /\ [][ObjectNext]_vars

\* The references and the values agree: a cell is null exactly when it
\* refers to no object, and cells referring to one object show one value.
RefsAgreeWithGrid ==
  \A c \in Cells(grid) :
    /\ heap.refs[c.y][c.x] = 0 <=> grid[c.y][c.x] = NullTile
    /\ \A d \in Cells(grid) :
         heap.refs[c.y][c.x] = heap.refs[d.y][d.x] => grid[c.y][c.x] = grid[d.y][d.x]

\* C37 as claimed: rotateCellCW on an occupied cell advances that tile's
\* rotation by one quarter-turn modulo 4 and keeps its piece id and kind,
\* leaves every other cell, the flow counter, the generator and the tiles of
\* the step list returned earlier as they were; on an empty cell it changes
\* nothing.
\* (Refuted through C34: after a shiftAlongPath on a path that repeats a cell,
\* two cells refer to one Tile object and the turn shows at both.)
C37_RotateTurnsOneTile ==
  [][\A c \in Cells(grid) :
       ObjRotateCellCW(c.x, c.y) =>
         /\ grid'[c.y][c.x] = IF grid[c.y][c.x] = NullTile THEN NullTile
                              ELSE [grid[c.y][c.x] EXCEPT !.rot = (@ + 1) % 4]
         /\ \A d \in Cells(grid) \ {c} : grid'[d.y][d.x] = grid[d.y][d.x]
         /\ waterFlows' = waterFlows
         /\ rng' = rng
         /\ heap'.held = heap.held]_vars

(***************************************************************************)
(* The WATER and CLEAR steps of a pass and the refill that follows.        *)
(***************************************************************************)
\* The index of the refill DROP of the pass whose CLEAR step is at index k.
RefillIndex(ss, k) ==
  IF k + 2 <= Len(ss) /\ IsRefillDrop(ss[k + 2]) THEN k + 2 ELSE k + 3

\* C38: in every WATER/CLEAR pair of resolveAll the WATER cells and the CLEAR
\* cells are the same coordinates, none twice, all in bounds, all occupied on
\* the grid before the clear and all empty right after clearCells; the refill
\* DROP of the pass has as many moves as the grid has empty cells after
\* gravity, which is the number of cleared cells when the grid was full
\* before the pass.
C38_WaterClearAndRefillAgree ==
  \A i \in 1 .. Len(clearLog) :
    LET e == clearLog[i]
        k == NthOfType(steps, "CLEAR", i, 1)
    IN  /\ k >= 2
        /\ steps[k - 1].type = "WATER"
        /\ {Pos(steps[k - 1].cells[n].x, steps[k - 1].cells[n].y) :
              n \in 1 .. Len(steps[k - 1].cells)} = SeqSet(steps[k].cells)
        /\ Len(steps[k - 1].cells) = Cardinality(SeqSet(steps[k].cells))
        /\ Len(steps[k].cells) = Cardinality(SeqSet(steps[k].cells))
        /\ SeqSet(steps[k].cells) \subseteq OccupiedCells(e.grid)
        /\ SeqSet(steps[k].cells) \subseteq EmptyCells(clearCells(e.grid, steps[k].cells))
        /\ ~(i = Len(clearLog) /\ pc = "returned" /\ ret.out.threw) =>
             LET j == RefillIndex(steps, k)
                 after == applyGravity(clearCells(e.grid, steps[k].cells)).grid
             IN  /\ j <= Len(steps)
                 /\ IsRefillDrop(steps[j])
                 /\ Len(steps[j].moves) = Cardinality(EmptyCells(after))
                 /\ Len(steps[j].moves) = Cardinality(EmptyCells(e.grid)) + Len(steps[k].cells)
                 /\ Full(e.grid) => Len(steps[j].moves) = Len(steps[k].cells)

\* A returned call with a clear of two cells or more on a grid that had an
\* empty cell, whose refill DROP has more moves than cells were cleared.
C38_Witness ==
  /\ ResolveReturned
  /\ \E i \in 1 .. Len(clearLog) :
       /\ ~Full(clearLog[i].grid)
       /\ Len(clearLog[i].network) >= 2
       /\ Len(steps[RefillIndex(steps, NthOfType(steps, "CLEAR", i, 1))].moves)
            > Len(clearLog[i].network)

(***************************************************************************)
(* The drop-style API: spawnNextPiece keeps the sampled tile as the        *)
(* current piece, moveAimColumn moves the aim by one column and dropCurrent *)
(* puts the current piece into the aim column.  drop holds the two fields. *)
(***************************************************************************)

DropStages ==
  {MkStage(2, 2, "ANY_EDGE", AllColumns, AllColumns, DeckPipes, fill, sd) :
     fill \in {FillNone, FillRows(1)}, sd \in {1, 19}}
  \cup {MkStage(3, 2, "ANY_EDGE", AllColumns, AllColumns, DeckPipes, FillNone, 6),
        MkStage(2, 1, "ANY_EDGE", AllColumns, AllColumns, DeckPipes, FillAll, 19),
        MkStage(1, 2, "ANY_EDGE", AllColumns, AllColumns, DeckEmpty, FillNone, 1)}

\* The constructor: no current piece, the aim on the middle column.
DropInit ==
  \E st \in DropStages :
    \E b \in {NewBoard(st)} :
      /\ stage = st
      /\ grid = b.grid
      /\ rng = b.rng
      /\ waterFlows = 0
      /\ pc = IF b.threw THEN "failed" ELSE "idle"
      /\ steps = <<>>
      /\ flows = 0
      /\ passes = 0
      /\ clearLog = <<>>
      /\ pre = NoPre
      /\ ret = NoRet
      /\ nOps = 0
      /\ iter = 0
      /\ twin = NoTwin
      /\ heap = NoHeap
      /\ drop = [currentPiece |-> NullTile, aimColumn |-> st.width \div 2]
      /\ scene = NoScene

\* The amounts a caller moves the aim by.
AimSteps == {0 - 1, 1}

moveAimColumn(aim, dx, width) == clampInt([hi |-> 0, lo |-> aim + dx], 0, width - 1)

\* getDropRow scanning from the top row down.
getDropRowFromTop(g, col) ==
  IF col < 0 \/ col >= Width(g) THEN [isNull |-> TRUE, y |-> 0]
  ELSE LET ys == {y \in 0 .. Height(g) - 1 : g[y][col] = NullTile}
       IN IF ys = {} THEN [isNull |-> TRUE, y |-> 0]
          ELSE [isNull |-> FALSE, y |-> CHOOSE y \in ys : \A z \in ys : z >= y]

\* getDropRow: the first empty row of the column, scanning from the bottom
\* row up, or null.
getDropRow(g, col) ==
  IF col < 0 \/ col >= Width(g) THEN [isNull |-> TRUE, y |-> 0]
  ELSE LET ys == {y \in 0 .. Height(g) - 1 : g[y][col] = NullTile}
       IN IF ys = {} THEN [isNull |-> TRUE, y |-> 0]
          ELSE [isNull |-> FALSE, y |-> CHOOSE y \in ys : \A z \in ys : z <= y]

\* dropCurrent: [grid, drop, isNull, pos]
dropCurrent(g, d) ==
  LET row == getDropRow(g, d.aimColumn)
  IN IF d.currentPiece = NullTile \/ row.isNull
     THEN [grid |-> g, drop |-> d, isNull |-> TRUE, pos |-> Pos(0, 0)]
     ELSE [grid |-> [g EXCEPT ![row.y][d.aimColumn] = d.currentPiece],
           drop |-> [d EXCEPT !.currentPiece = NullTile],
           isNull |-> FALSE, pos |-> Pos(d.aimColumn, row.y)]

SpawnNextPieceAsCurrent ==
  /\ CanCall
  /\ \E s \in {SampleTile(rng, stage.weights, stage.enabledPieces)} :
       /\ rng' = s.rng
       /\ drop' = IF s.threw THEN drop ELSE [drop EXCEPT !.currentPiece = s.tile]
       /\ Called("spawnNextPiece", <<>>,
                 [threw |-> s.threw, steps |-> <<>>, flowsGained |-> 0, moves |-> <<>>,
                  tile |-> s.tile])
  /\ pc' = "returned"
  /\ UNCHANGED <<stage, twin, heap, scene, grid, waterFlows, steps, flows, passes, clearLog, iter>>

MoveAimColumn(dx) ==
  /\ CanCall
  /\ drop' = [drop EXCEPT !.aimColumn = moveAimColumn(@, dx, Width(grid))]
  /\ Called("moveAimColumn", <<dx>>, NoOut)
  /\ pc' = "returned"
  /\ UNCHANGED <<stage, twin, heap, scene, grid, rng, waterFlows, steps, flows, passes, clearLog, iter>>

DropCurrent ==
  /\ CanCall
  /\ \E r \in {dropCurrent(grid, drop)} :
       /\ grid' = r.grid
       /\ drop' = r.drop
       /\ Called("dropCurrent", <<>>,
                 [threw |-> FALSE, steps |-> <<>>, flowsGained |-> 0, moves |-> <<>>,
                  isNull |-> r.isNull, pos |-> r.pos])
  /\ pc' = "returned"
  /\ UNCHANGED <<stage, twin, heap, scene, rng, waterFlows, steps, flows, passes, clearLog, iter>>

DropNext ==
  \/ SpawnNextPieceAsCurrent
  \/ \E dx \in AimSteps : MoveAimColumn(dx)
  \/ DropCurrent
  \/ CallerContinues

DropSpec == DropInit /\ [][DropNext]_vars

\* The empty cells of the aim column below which the column is full.
LowestEmpty(g, col) ==
  {y \in 0 .. Height(g) - 1 :
     /\ g[y][col] = NullTile
     /\ \A z \in y + 1 .. Height(g) - 1 : g[z][col] # NullTile}

\* What a dropCurrent call with a current piece and room in the aim column
\* does, and what any other dropCurrent call does.
DropPlacesOrRefuses ==
  (pc = "idle" /\ pc' = "returned" /\ ret'.op = "dropCurrent") =>
    IF drop.currentPiece # NullTile /\ LowestEmpty(grid, drop.aimColumn) # {}
    THEN \E y \in LowestEmpty(grid, drop.aimColumn) :
           /\ ~ret'.out.isNull
           /\ ret'.out.pos = Pos(drop.aimColumn, y)
           /\ grid'[y][drop.aimColumn] = drop.currentPiece
           /\ \A c \in Cells(grid) : c # Pos(drop.aimColumn, y) => grid'[c.y][c.x] = grid[c.y][c.x]
           /\ drop'.currentPiece = NullTile
           /\ drop'.aimColumn = drop.aimColumn
    ELSE /\ ret'.out.isNull
         /\ grid' = grid
         /\ drop' = drop

\* C39: the aim column is always a column of the board, whatever moves were
\* made; a drop with a current piece and room in the aim column puts a copy
\* of the piece into the lowest empty cell of that column, changes no other
\* cell and leaves no current piece; any other drop returns null and changes
\* neither the grid nor the current piece.
C39_AimStaysOnBoardAndDropPlaces ==
  /\ [](drop.aimColumn \in 0 .. Width(grid) - 1)
  /\ [][DropPlacesOrRefuses]_vars

\* A piece was spawned, the aim was moved off the middle column and the piece
\* was dropped to the bottom of an empty column of two cells.
C39_Witness ==
  /\ pc = "returned"
  /\ ret.op = "dropCurrent"
  /\ ~ret.out.isNull
  /\ drop.aimColumn # Width(grid) \div 2
  /\ ret.out.pos = Pos(drop.aimColumn, Height(grid) - 1)
  /\ Height(grid) = 2
  /\ grid[0][drop.aimColumn] = NullTile
  /\ grid[1][drop.aimColumn] # NullTile
  /\ pre.grid[1][drop.aimColumn] = NullTile
  /\ drop.currentPiece = NullTile

(***************************************************************************)
(* The generator on its own: constructed from a seed, then drawn from.     *)
(* A seed is a whole number hi * 65536 + lo; seed | 0 keeps its low 32     *)
(* bits, so a negative seed is the seed 2^32 larger.                       *)
(***************************************************************************)

\* Draws followed from one seed.
MaxDraws == 40

Zero32 == [hi |-> 0, lo |-> 0]

\* new XorShift32(seed) that stores seed | 0 as it is.
XorShiftKeepingZero(seed) == [hi |-> seed.hi % Half, lo |-> seed.lo]

\* new XorShift32(seed): (seed | 0) || 0x12345678.
XorShiftOf(seed) ==
  IF [hi |-> seed.hi % Half, lo |-> seed.lo] = Zero32 THEN [hi |-> 4660, lo |-> 22136]
  ELSE [hi |-> seed.hi % Half, lo |-> seed.lo]

\* Seeds: 0, 2^32 and 3 * 2^32 (whose low 32 bits are 0), every pattern of
\* one bit, the pattern of -1, the replacement constant, and small seeds.
RngSeeds ==
  {Zero32, [hi |-> Half, lo |-> 0], [hi |-> 3 * Half, lo |-> 0],
   [hi |-> Half - 1, lo |-> Half - 1], [hi |-> 4660, lo |-> 22136]}
  \cup {[hi |-> 0, lo |-> 2 ^ k] : k \in 0 .. 15}
  \cup {[hi |-> 2 ^ k, lo |-> 0] : k \in 0 .. 15}
  \cup {[hi |-> 0, lo |-> n] : n \in {3, 6, 9, 15, 19}}

RngInit ==
  \E seed \in RngSeeds :
    /\ stage = MkStage(1, 1, "ANY_EDGE", AllColumns, AllColumns, DeckPipes, FillNone, 1)
    /\ grid = EmptyGrid(1, 1)
    /\ rng = XorShiftOf(seed)
    /\ waterFlows = 0
    /\ pc = "idle"
    /\ steps = <<>>
    /\ flows = 0
    /\ passes = 0
    /\ clearLog = <<>>
    /\ pre = NoPre
    /\ ret = [op |-> "new XorShift32", args |-> <<seed>>, out |-> NoOut]
    /\ nOps = 0
    /\ iter = 0
    /\ twin = NoTwin
    /\ heap = NoHeap
    /\ drop = NoDrop
    /\ scene = NoScene

\* nextU32() on the generator; the value returned is the new state read as
\* an unsigned number.
NextU32 ==
  /\ nOps < MaxDraws
  /\ rng' = nextU32(rng)
  /\ ret' = [ret EXCEPT !.op = "nextU32"]
  /\ nOps' = nOps + 1
  /\ UNCHANGED <<stage, twin, heap, drop, scene, grid, waterFlows, pc, steps, flows, passes,
                 clearLog, pre, iter>>

RngNext == NextU32

RngSpec == RngInit /\ [][RngNext]_vars

\* C40: the state of the generator is never 0, at construction (a seed whose
\* low 32 bits are 0 gives the constant 0x12345678) and after any number of
\* nextU32 calls; nor is it 0 between the three shift-and-xor steps of the
\* next call.
C40_StateNeverZero ==
  /\ rng # Zero32
  /\ rng.hi \in 0 .. Half - 1
  /\ rng.lo \in 0 .. Half - 1
  /\ (ret.args[1].hi % Half = 0 /\ ret.args[1].lo = 0 /\ nOps = 0) => rng = [hi |-> 4660, lo |-> 22136]
  /\ XorShl13(rng) # Zero32
  /\ XorShr17(XorShl13(rng)) # Zero32

\* The generator built from seed 0 has been drawn from as often as is followed.
C40_Witness ==
  /\ ret.op = "nextU32"
  /\ ret.args[1] = Zero32
  /\ nOps = MaxDraws
  /\ rng # [hi |-> 4660, lo |-> 22136]

====
